---- MODULE Spec2Model ----
(* Model of the civic-issue backend REST API: the authentication and admin    *)
(* middleware, the issue controller and the user controller, each handler      *)
(* split at its awaited persistence calls so that concurrent requests          *)
(* interleave exactly where the code suspends.                                 *)
EXTENDS Integers, Sequences, FiniteSets, Bags, TLC

\* ---------------------------------------------------------------- bounds

\* Number of requests that can be in flight at the same time.
NumReq == 2
\* Number of issue ids the store can hand out.
MaxIssues == 1
\* Number of comment ids the store can hand out.
MaxComments == 1
\* Cap on an issue's upvote counter (the guard of the upvote request).
MaxUpvotes == 2

\* The comments under the issue when comments are deleted.
ThreadLen == 2

\* The issues in the store when issues are listed.
ListLen == 13

\* The notifications one user can have.
MaxNotifications == 4

\* The pages a list can have, and the page buttons a page can ask for.
MaxPages == 10
MaxPageButtons == 7

\* ---------------------------------------------------------------- domains

Roles == {"CITIZEN", "OFFICIAL", "ADMIN"}

Statuses == {"REPORTED", "UNDER_REVIEW", "IN_PROGRESS", "RESOLVED", "CLOSED"}

Categories ==
  {"ROADS", "WATER", "ELECTRICITY", "SANITATION", "PUBLIC_SAFETY",
   "ENVIRONMENT", "PUBLIC_PROPERTY", "OTHER"}

\* A field absent from a request body (JavaScript undefined).
Undef == "undefined"

\* The users of the store: no operation of the API creates or deletes a user.
UserIds == {1, 2, 3, 4}

\* The subject of a token whose user is not in the store.
GhostUser == 9

IssueIds == 1..MaxIssues

CommentIds == 1..MaxComments

VARIABLES
  users,        \* user id -> [email, name, role, profilePicture]
  issues,       \* issue id -> issue row, for the issues that exist
  comments,     \* comment id -> comment row, for the comments that exist
  nextIssue,    \* next issue id the store hands out
  nextComment,  \* next comment id the store hands out
  req,          \* the bag of requests in flight (and answered, until they leave)
  upvoteOk,     \* history: issue id -> user id -> upvote requests answered 200
  foreignKeys,  \* whether the database enforces comment.issueId -> issue.id
  currentIssue, \* IssueProvider's currentIssue in the browser: [id, comments]
  loading,      \* IssueProvider's loading flag
  notifications, \* NotificationProvider's list: notification id -> [read]
  unreadCount,  \* NotificationProvider's unreadCount
  pager         \* the Pagination component: its props and the page numbers it shows

vars ==
  <<users, issues, comments, nextIssue, nextComment, req, upvoteOk, foreignKeys,
    currentIssue, loading, notifications, unreadCount, pager>>

store ==
  <<users, issues, comments, nextIssue, nextComment, upvoteOk, foreignKeys,
    currentIssue, loading, notifications, unreadCount, pager>>

\* ---------------------------------------------------------------- requests

NoUser == [id |-> 0, email |-> "none", name |-> "none", role |-> "none"]

NoHeader == [kind |-> "none", sub |-> 0, sigOk |-> FALSE, expired |-> FALSE]

\* "Authorization: Bearer <token>" with a token signed for subject sub.
Bearer(sub, sigOk, expired) ==
  [kind |-> "bearer", sub |-> sub, sigOk |-> sigOk, expired |-> expired]

\* A header that does not start with "Bearer ".
Malformed == [kind |-> "malformed", sub |-> 0, sigOk |-> FALSE, expired |-> FALSE]

\* The token the server issued to user u, unexpired.
TokenOf(u) == Bearer(u, TRUE, FALSE)

\* A request body with no field set; reporterId 0 stands for no reporterId.
EmptyBody ==
  [title |-> Undef, description |-> Undef, location |-> Undef,
   category |-> Undef, status |-> Undef, content |-> Undef,
   name |-> Undef, profilePicture |-> Undef, role |-> Undef, reporterId |-> 0]

\* A query string without parameters. status and category are texts; page and
\* limit are absent (<<>>) or carry the decimal text of an integer (<<n>>).
NoQuery == [status |-> Undef, category |-> Undef, page |-> <<>>, limit |-> <<>>]

\* A JavaScript number that is an integer.
Num(n) == [fin |-> TRUE, val |-> n]

\* JavaScript's Infinity.
Infinity == [fin |-> FALSE, val |-> 1]

\* JavaScript's NaN.
NaN == [fin |-> FALSE, val |-> 0]

\* The pagination block of a request that has not been answered.
NoPagination == [total |-> 0, page |-> 0, limit |-> 0, pages |-> Num(0)]

NoExisting == [reporterId |-> 0, status |-> "none", upvotes |-> 0]

\* useState(null): no issue is loaded in the browser.
NoCurrentIssue == [id |-> 0, comments |-> {}]

\* The '...' entry of a list of page numbers (no page has number 0).
Ellipsis == 0

\* A page with nothing to paginate: the component has not been rendered.
NoPager ==
  [currentPage |-> 1, totalPages |-> 0, maxPageButtons |-> 5, pageNumbers |-> <<>>]

Idle ==
  [pc |-> "idle", op |-> "none", hdr |-> NoHeader, user |-> NoUser, id |-> 0,
   body |-> EmptyBody, existing |-> NoExisting, statusChanged |-> FALSE,
   oldStatus |-> "none", status |-> 0, effects |-> {}, mails |-> <<>>,
   commentId |-> 0, view |-> NoCurrentIssue,
   query |-> NoQuery, list |-> <<>>, pagination |-> NoPagination,
   payload |-> <<>>, removed |-> {}]

\* res.status(code).json(...): the request ends.
Respond(q, code) == [q EXCEPT !.pc = "done", !.status = code]

\* next(error): the top-level error handler answers 500.
NextError(q) == Respond(q, 500)

\* The requests in flight.
InFlight == BagToSet(req)

\* A request arrives, when there is room for one more in flight.
Arrive(q) ==
  /\ BagCardinality(req) < NumReq
  /\ req' = req (+) SetToBag({q})

\* Request q moves on and becomes q2.
Replace(q, q2) == (req (-) SetToBag({q})) (+) SetToBag({q2})

\* The number of requests in flight whose program counter is in pcs and whose
\* id is in ids.
RECURSIVE CountIn(_, _, _)
CountIn(S, pcs, ids) ==
  IF S = {} THEN 0
  ELSE LET q == CHOOSE x \in S : TRUE
       IN (IF q.pc \in pcs /\ q.id \in ids THEN CopiesIn(q, req) ELSE 0)
            + CountIn(S \ {q}, pcs, ids)

\* ---------------------------------------------------------------- middleware

\* jwt.verify(token, secret): the signature is checked before the expiry.
JwtVerify(hdr) ==
  IF ~hdr.sigOk THEN "JsonWebTokenError"
  ELSE IF hdr.expired THEN "TokenExpiredError"
  ELSE "ok"

\* The middleware with the header accepted whatever the token's expiry.
AuthMiddleware_NoExpiry(hdr) ==
  IF hdr.kind # "bearer" THEN [status |-> 401, user |-> NoUser]
  ELSE IF ~hdr.sigOk THEN [status |-> 401, user |-> NoUser]
  ELSE IF hdr.sub \notin DOMAIN users THEN [status |-> 401, user |-> NoUser]
  ELSE [status |-> 0,
        user |-> [id |-> hdr.sub, email |-> users[hdr.sub].email,
                  name |-> users[hdr.sub].name, role |-> users[hdr.sub].role]]

\* auth.middleware: 401, or the user attached to the request.
AuthMiddleware(hdr) ==
  IF hdr.kind # "bearer" THEN [status |-> 401, user |-> NoUser]
  ELSE IF JwtVerify(hdr) = "JsonWebTokenError" THEN [status |-> 401, user |-> NoUser]
  ELSE IF JwtVerify(hdr) = "TokenExpiredError" THEN [status |-> 401, user |-> NoUser]
  ELSE IF hdr.sub \notin DOMAIN users THEN [status |-> 401, user |-> NoUser]
  ELSE [status |-> 0,
        user |-> [id |-> hdr.sub, email |-> users[hdr.sub].email,
                  name |-> users[hdr.sub].name, role |-> users[hdr.sub].role]]

\* A middleware that lets officials through as well.
AdminMiddleware_Official(user) == user.role \in {"ADMIN", "OFFICIAL"}

\* admin.middleware: TRUE when the request is let through.
AdminMiddleware(user) == user.role = "ADMIN"

\* ---------------------------------------------------------------- persistence

\* findUnique returns null: no row of the table has this id.
Missing(id, table) == id \notin DOMAIN table

\* orderBy: {createdAt: 'desc'}: the ids of S, the row created last first. The
\* store hands out ids in the order of creation.
RECURSIVE NewestFirst(_)
NewestFirst(S) ==
  IF S = {} THEN <<>>
  ELSE LET m == CHOOSE x \in S : \A y \in S : y <= x
       IN <<m>> \o NewestFirst(S \ {m})

\* A store whose status column takes any string.
PrismaValidIssueData_AnyStatus(body) == body.category \in Categories \cup {Undef}

\* The issue table's status and category columns are closed enums and its text
\* columns are required: the store refuses a write carrying any other value.
PrismaValidIssueData(body) ==
  /\ body.status \in Statuses \cup {Undef}
  /\ body.category \in Categories \cup {Undef}

\* A new issue row: status and upvotes take the columns' defaults.
NewIssueRow(body, reporterId) ==
  [title |-> body.title, description |-> body.description,
   location |-> body.location, category |-> body.category,
   status |-> "REPORTED", upvotes |-> 0, reporterId |-> reporterId]

\* The store refuses to insert a comment whose issue does not exist, when the
\* database enforces the reference.
CommentInsertRefused(issueId) == foreignKeys /\ Missing(issueId, issues)

\* The store refuses to delete an issue that a comment references, when the
\* database enforces the reference.
IssueDeleteRefused(issueId) ==
  foreignKeys /\ \E c \in DOMAIN comments : comments[c].issueId = issueId

\* ---------------------------------------------------------------- issue controller

\* express-validator notEmpty(): undefined and the empty string fail.
NotEmpty(v) == v # Undef /\ v # ""

\* The validators with the category test left out.
CreateIssueValid_NoCategory(body) ==
  /\ NotEmpty(body.title)
  /\ NotEmpty(body.description)
  /\ NotEmpty(body.location)

\* The validators of POST /api/issues.
CreateIssueValid(body) ==
  /\ NotEmpty(body.title)
  /\ NotEmpty(body.description)
  /\ NotEmpty(body.location)
  /\ body.category \in Categories

\* The validators of POST /api/issues/:id/comments.
AddCommentValid(body) == NotEmpty(body.content)

\* The update guard with the role test left out: every authenticated user passes.
CanUpdateIssue_Anyone(existingIssue, user) ==
  \/ existingIssue.reporterId = user.id
  \/ user.role \in Roles

\* updateIssue's guard: the reporter, an OFFICIAL or an ADMIN.
CanUpdateIssue(existingIssue, user) ==
  ~(/\ existingIssue.reporterId # user.id
    /\ user.role # "OFFICIAL"
    /\ user.role # "ADMIN")

\* The delete guard with OFFICIAL let through as in updateIssue.
CanDeleteIssue_Official(existingIssue, user) ==
  ~(/\ existingIssue.reporterId # user.id
    /\ user.role # "OFFICIAL"
    /\ user.role # "ADMIN")

\* deleteIssue's guard: the reporter or an ADMIN.
CanDeleteIssue(existingIssue, user) ==
  ~(existingIssue.reporterId # user.id /\ user.role # "ADMIN")

\* JavaScript truthiness of a body field: undefined and "" are falsy.
Truthy(v) == v # Undef /\ v # ""

\* The test with the comparison left out: any status provided counts as a change.
StatusChanged_Provided(status, existingIssue) == Truthy(status)

\* status && status !== existingIssue.status
StatusChanged(status, existingIssue) ==
  Truthy(status) /\ status # existingIssue.status

\* The update that also writes the upvote counter back from the request.
IssueAfterUpdate_ResetUpvotes(row, body) ==
  [row EXCEPT
     !.title = IF body.title = Undef THEN @ ELSE body.title,
     !.description = IF body.description = Undef THEN @ ELSE body.description,
     !.status = IF body.status = Undef THEN @ ELSE body.status,
     !.category = IF body.category = Undef THEN @ ELSE body.category,
     !.upvotes = 0]

\* An update that moves the status forward along REPORTED, UNDER_REVIEW,
\* IN_PROGRESS, RESOLVED, CLOSED and otherwise keeps it.
IssueAfterUpdate_ForwardOnly(row, body) ==
  LET order == <<"REPORTED", "UNDER_REVIEW", "IN_PROGRESS", "RESOLVED", "CLOSED">>
      rank(x) == CHOOSE k \in 1..5 : order[k] = x
  IN [row EXCEPT
        !.title = IF body.title = Undef THEN @ ELSE body.title,
        !.description = IF body.description = Undef THEN @ ELSE body.description,
        !.status = IF body.status = Undef THEN @
                   ELSE IF rank(body.status) >= rank(@) THEN body.status ELSE @,
        !.category = IF body.category = Undef THEN @ ELSE body.category]

\* An update that passes the whole body on to the store, reporterId included.
IssueAfterUpdate_MassAssign(row, body) ==
  [row EXCEPT
     !.title = IF body.title = Undef THEN @ ELSE body.title,
     !.description = IF body.description = Undef THEN @ ELSE body.description,
     !.status = IF body.status = Undef THEN @ ELSE body.status,
     !.category = IF body.category = Undef THEN @ ELSE body.category,
     !.reporterId = IF body.reporterId = 0 THEN @ ELSE body.reporterId]

\* prisma.issue.update({data: {title, description, status, category}}): a field
\* that is undefined is left as it is.
IssueAfterUpdate(row, body) ==
  [row EXCEPT
     !.title = IF body.title = Undef THEN @ ELSE body.title,
     !.description = IF body.description = Undef THEN @ ELSE body.description,
     !.status = IF body.status = Undef THEN @ ELSE body.status,
     !.category = IF body.category = Undef THEN @ ELSE body.category]

\* The increment computed from the row read by the existence check.
IssueAfterUpvote_ReadModifyWrite(row, existingUpvotes) ==
  [row EXCEPT !.upvotes = existingUpvotes + 1]

\* prisma.issue.update({data: {upvotes: {increment: 1}}}): the store increments.
IssueAfterUpvote(row, existingUpvotes) ==
  [row EXCEPT !.upvotes = @ + 1]

\* What a handler keeps of the row its existence check read.
Snapshot(row) ==
  [reporterId |-> row.reporterId, status |-> row.status, upvotes |-> row.upvotes]

\* The request as it leaves the authentication middleware.
Authenticated(op, hdr, id, body) ==
  LET a == AuthMiddleware(hdr)
      q == [Idle EXCEPT !.op = op, !.hdr = hdr, !.id = id, !.body = body,
                        !.user = a.user]
  IN IF a.status = 401 THEN Respond(q, 401) ELSE [q EXCEPT !.pc = "authed"]

\* A request on a route without authentication.
Public(op, id) == [Idle EXCEPT !.op = op, !.id = id, !.pc = "authed"]

\* The number of requests in flight that will still take an issue id.
PendingCreates == CountIn(InFlight, {"crt_create"}, Nat)

\* The number of requests in flight that will still take a comment id.
PendingComments == CountIn(InFlight, {"cmt_find", "cmt_create"}, Nat)

\* The number of requests in flight that will still upvote issue id.
PendingUpvotes(id) == CountIn(InFlight, {"upv_find", "upv_write"}, {id})

\* ---- createIssue

\* POST /api/issues: authentication, the validators, then the handler up to its
\* first awaited call.
ReqCreateIssue(hdr, body) ==
  /\ nextIssue + PendingCreates <= MaxIssues
  /\ LET q == Authenticated("createIssue", hdr, 0, body)
     IN Arrive(IF q.pc = "done" THEN q
                  ELSE IF ~CreateIssueValid(body) THEN Respond(q, 400)
                  ELSE [q EXCEPT !.pc = "crt_create"])
  /\ UNCHANGED store

\* await prisma.issue.create(...)
CreateIssueInsert(q) ==
  /\ q.pc = "crt_create"
  /\ issues' = (nextIssue :> NewIssueRow(q.body, q.user.id)) @@ issues
  /\ nextIssue' = nextIssue + 1
  /\ req' = Replace(q,
               [q EXCEPT !.pc = "crt_mail1", !.id = nextIssue,
                         !.effects = @ \cup {"issue_create"}])
  /\ UNCHANGED <<users, comments, nextComment, upvoteOk, foreignKeys, currentIssue, loading, notifications, unreadCount, pager>>

\* The dispatch outside a try/catch of its own: a failure reaches next(error).
CreateIssueMailReporter_Throws(q, ok) ==
  /\ q.pc = "crt_mail1"
  /\ req' = Replace(q,
               IF ok
               THEN [q EXCEPT !.pc = "crt_mail2",
                              !.mails = Append(@, [kind |-> "created", old |-> "none",
                                                   new |-> "none", ok |-> ok])]
               ELSE NextError([q EXCEPT !.mails =
                                 Append(@, [kind |-> "created", old |-> "none",
                                            new |-> "none", ok |-> ok])]))
  /\ UNCHANGED store

\* await sendIssueCreatedEmail(...) inside its own try/catch.
CreateIssueMailReporter(q, ok) ==
  /\ q.pc = "crt_mail1"
  /\ req' = Replace(q,
               [q EXCEPT !.pc = "crt_mail2",
                         !.mails = Append(@, [kind |-> "created", old |-> "none",
                                              new |-> "none", ok |-> ok])])
  /\ UNCHANGED store

\* await sendAdminNotificationEmail(...) inside its own try/catch, then 201.
CreateIssueMailAdmins(q, ok) ==
  /\ q.pc = "crt_mail2"
  /\ req' = Replace(q,
               Respond([q EXCEPT !.mails = Append(@, [kind |-> "admins", old |-> "none",
                                                      new |-> "none", ok |-> ok])],
                       201))
  /\ UNCHANGED store

\* ---- updateIssue

\* PUT /api/issues/:id: authentication, then the handler up to findUnique.
ReqUpdateIssue(hdr, id, body) ==
  /\ LET q == Authenticated("updateIssue", hdr, id, body)
     IN Arrive(IF q.pc = "done" THEN q ELSE [q EXCEPT !.pc = "upd_find"])
  /\ UNCHANGED store

\* The request after findUnique resolved: 404, 403, or the update is issued.
UpdateIssueChecked(q) ==
  IF Missing(q.id, issues) THEN Respond(q, 404)
  ELSE IF ~CanUpdateIssue(issues[q.id], q.user) THEN Respond(q, 403)
  ELSE [q EXCEPT !.pc = "upd_write",
                 !.existing = Snapshot(issues[q.id]),
                 !.statusChanged = StatusChanged(q.body.status, issues[q.id]),
                 !.oldStatus = issues[q.id].status]

\* await prisma.issue.findUnique(...) and the checks that follow it.
UpdateIssueFind(q) ==
  /\ q.pc = "upd_find"
  /\ req' = Replace(q, UpdateIssueChecked(q))
  /\ UNCHANGED store

\* An update that writes the row anew when it is gone (an upsert).
UpdateIssueWrite_Upsert(q) ==
  /\ q.pc = "upd_write"
  /\ IF ~PrismaValidIssueData(q.body)
        THEN /\ req' = Replace(q, NextError(q))
             /\ UNCHANGED issues
        ELSE /\ issues' =
                  IF Missing(q.id, issues)
                     THEN (q.id :> IssueAfterUpdate(
                                     [NewIssueRow(EmptyBody, q.existing.reporterId)
                                        EXCEPT !.status = q.existing.status],
                                     q.body)) @@ issues
                     ELSE [issues EXCEPT ![q.id] = IssueAfterUpdate(@, q.body)]
             /\ req' = Replace(q,
                          IF q.statusChanged
                          THEN [q EXCEPT !.pc = "upd_mail",
                                         !.effects = @ \cup {"issue_write"}]
                          ELSE Respond([q EXCEPT !.effects = @ \cup {"issue_write"}], 200))
  /\ UNCHANGED <<users, comments, nextIssue, nextComment, upvoteOk, foreignKeys, currentIssue, loading, notifications, unreadCount, pager>>

\* await prisma.issue.update(...): it throws when the row is gone or the data is
\* refused, and the catch hands the error to next().
UpdateIssueWrite(q) ==
  /\ q.pc = "upd_write"
  /\ IF Missing(q.id, issues) \/ ~PrismaValidIssueData(q.body)
        THEN /\ req' = Replace(q, NextError(q))
             /\ UNCHANGED issues
        ELSE /\ issues' = [issues EXCEPT ![q.id] = IssueAfterUpdate(@, q.body)]
             /\ req' = Replace(q,
                          IF q.statusChanged
                          THEN [q EXCEPT !.pc = "upd_mail",
                                         !.effects = @ \cup {"issue_write"}]
                          ELSE Respond([q EXCEPT !.effects = @ \cup {"issue_write"}], 200))
  /\ UNCHANGED <<users, comments, nextIssue, nextComment, upvoteOk, foreignKeys, currentIssue, loading, notifications, unreadCount, pager>>

\* await sendStatusUpdateEmail(...) inside its own try/catch, then 200.
UpdateIssueMail(q, ok) ==
  /\ q.pc = "upd_mail"
  /\ req' = Replace(q,
               Respond([q EXCEPT !.mails =
                          Append(@, [kind |-> "status", old |-> q.oldStatus,
                                     new |-> q.body.status, ok |-> ok])],
                       200))
  /\ UNCHANGED store

\* ---- deleteIssue

\* DELETE /api/issues/:id: authentication, then the handler up to findUnique.
ReqDeleteIssue(hdr, id) ==
  /\ LET q == Authenticated("deleteIssue", hdr, id, EmptyBody)
     IN Arrive(IF q.pc = "done" THEN q ELSE [q EXCEPT !.pc = "del_find"])
  /\ UNCHANGED store

\* A handler that goes from the checks straight to the deletion of the issue.
DeleteIssueChecked_SkipComments(q) ==
  IF Missing(q.id, issues) THEN Respond(q, 404)
  ELSE IF ~CanDeleteIssue(issues[q.id], q.user) THEN Respond(q, 403)
  ELSE [q EXCEPT !.pc = "del_issue", !.existing = Snapshot(issues[q.id])]

\* The request after findUnique resolved: 404, 403, or deleteMany is issued.
DeleteIssueChecked(q) ==
  IF Missing(q.id, issues) THEN Respond(q, 404)
  ELSE IF ~CanDeleteIssue(issues[q.id], q.user) THEN Respond(q, 403)
  ELSE [q EXCEPT !.pc = "del_comments", !.existing = Snapshot(issues[q.id])]

\* await prisma.issue.findUnique(...) and the checks that follow it.
DeleteIssueFind(q) ==
  /\ q.pc = "del_find"
  /\ req' = Replace(q, DeleteIssueChecked(q))
  /\ UNCHANGED store

\* The comments left by deleteMany({where: {issueId: id}}).
CommentsWithout(id) ==
  [c \in {d \in DOMAIN comments : comments[d].issueId # id} |-> comments[c]]

\* await prisma.comment.deleteMany(...)
DeleteIssueComments(q) ==
  /\ q.pc = "del_comments"
  /\ comments' = CommentsWithout(q.id)
  /\ req' = Replace(q,
               [q EXCEPT !.pc = "del_issue",
                         !.effects = @ \cup {"comments_delete"},
                         !.removed = DOMAIN comments \ DOMAIN CommentsWithout(q.id)])
  /\ UNCHANGED <<users, issues, nextIssue, nextComment, upvoteOk, foreignKeys, currentIssue, loading, notifications, unreadCount, pager>>

\* await prisma.issue.delete(...): it throws when the row is gone or the store
\* refuses; then 200.
DeleteIssueRow(q) ==
  /\ q.pc = "del_issue"
  /\ IF Missing(q.id, issues) \/ IssueDeleteRefused(q.id)
        THEN /\ req' = Replace(q, NextError(q))
             /\ UNCHANGED issues
        ELSE /\ issues' = [i \in DOMAIN issues \ {q.id} |-> issues[i]]
             /\ req' = Replace(q,
                          Respond([q EXCEPT !.effects = @ \cup {"issue_delete"}], 200))
  /\ UNCHANGED <<users, comments, nextIssue, nextComment, upvoteOk, foreignKeys, currentIssue, loading, notifications, unreadCount, pager>>

\* await prisma.issue.delete(...) rejects because the database cannot be
\* reached: the catch hands the error to next(error).
DeleteIssueRowFails(q) ==
  /\ q.pc = "del_issue"
  /\ req' = Replace(q, NextError(q))
  /\ UNCHANGED store

\* ---- upvoteIssue

\* POST /api/issues/:id/upvote: authentication, then the handler up to findUnique.
ReqUpvoteIssue(hdr, id) ==
  /\ IF Missing(id, issues) THEN TRUE
     ELSE issues[id].upvotes + PendingUpvotes(id) < MaxUpvotes
  /\ LET q == Authenticated("upvoteIssue", hdr, id, EmptyBody)
     IN Arrive(IF q.pc = "done" THEN q ELSE [q EXCEPT !.pc = "upv_find"])
  /\ UNCHANGED store

\* The request after findUnique resolved: 404, or the update is issued.
UpvoteIssueChecked(q) ==
  IF Missing(q.id, issues) THEN Respond(q, 404)
  ELSE [q EXCEPT !.pc = "upv_write", !.existing = Snapshot(issues[q.id])]

\* await prisma.issue.findUnique(...) and the check that follows it.
UpvoteIssueFind(q) ==
  /\ q.pc = "upv_find"
  /\ req' = Replace(q, UpvoteIssueChecked(q))
  /\ UNCHANGED store

\* await prisma.issue.update(...): it throws when the row is gone; then 200.
UpvoteIssueWrite(q) ==
  /\ q.pc = "upv_write"
  /\ IF Missing(q.id, issues)
        THEN /\ req' = Replace(q, NextError(q))
             /\ UNCHANGED issues
        ELSE /\ issues' = [issues EXCEPT ![q.id] = IssueAfterUpvote(@, q.existing.upvotes)]
             /\ req' = Replace(q,
                          Respond([q EXCEPT !.effects = @ \cup {"issue_upvote"}], 200))
  /\ upvoteOk' = IF Missing(q.id, issues)
                 THEN upvoteOk ELSE [upvoteOk EXCEPT ![q.id][q.user.id] = @ + 1]
  /\ UNCHANGED <<users, comments, nextIssue, nextComment, foreignKeys, currentIssue, loading, notifications, unreadCount, pager>>

\* ---- addComment

\* POST /api/issues/:id/comments: authentication, the validator, then the
\* handler up to findUnique.
ReqAddComment(hdr, id, body) ==
  /\ nextComment + PendingComments <= MaxComments
  /\ LET q == Authenticated("addComment", hdr, id, body)
     IN Arrive(IF q.pc = "done" THEN q
                  ELSE IF ~AddCommentValid(body) THEN Respond(q, 400)
                  ELSE [q EXCEPT !.pc = "cmt_find"])
  /\ UNCHANGED store

\* A handler that lets only the reporter of the issue comment on it.
AddCommentChecked_ReporterOnly(q) ==
  IF Missing(q.id, issues) THEN Respond(q, 404)
  ELSE IF issues[q.id].reporterId # q.user.id THEN Respond(q, 403)
  ELSE [q EXCEPT !.pc = "cmt_create", !.existing = Snapshot(issues[q.id])]

\* The request after findUnique resolved: 404, or the insert is issued.
AddCommentChecked(q) ==
  IF Missing(q.id, issues) THEN Respond(q, 404)
  ELSE [q EXCEPT !.pc = "cmt_create", !.existing = Snapshot(issues[q.id])]

\* await prisma.issue.findUnique(...) and the check that follows it.
AddCommentFind(q) ==
  /\ q.pc = "cmt_find"
  /\ req' = Replace(q, AddCommentChecked(q))
  /\ UNCHANGED store

\* await prisma.comment.create(...), then 201.
AddCommentInsert(q) ==
  /\ q.pc = "cmt_create"
  /\ IF CommentInsertRefused(q.id)
        THEN /\ req' = Replace(q, NextError(q))
             /\ UNCHANGED <<comments, nextComment>>
        ELSE /\ comments' = (nextComment :> [issueId |-> q.id, authorId |-> q.user.id,
                                             content |-> q.body.content]) @@ comments
             /\ nextComment' = nextComment + 1
             /\ req' = Replace(q,
                          Respond([q EXCEPT !.effects = @ \cup {"comment_create"}], 201))
  /\ UNCHANGED <<users, issues, nextIssue, upvoteOk, foreignKeys, currentIssue, loading, notifications, unreadCount, pager>>

\* ---- getIssueById, getComments

\* select: {id, name, email, role, profilePicture} of a user row.
PublicUser(u) ==
  [id |-> u, name |-> users[u].name, email |-> users[u].email,
   role |-> users[u].role, profilePicture |-> users[u].profilePicture]

\* The comments of issue id, the newest first, each with its author.
CommentsOf(id) ==
  LET order == NewestFirst({c \in DOMAIN comments : comments[c].issueId = id})
  IN [k \in 1..Len(order) |->
        [id |-> order[k], content |-> comments[order[k]].content,
         issueId |-> id, authorId |-> comments[order[k]].authorId,
         author |-> PublicUser(comments[order[k]].authorId)]]

\* What findUnique with its include resolves with: the row, its reporter and its
\* comments.
IssuePayload(id) ==
  [id |-> id, issue |-> issues[id], reporter |-> PublicUser(issues[id].reporterId),
   comments |-> CommentsOf(id)]

\* A handler that counts the view on the row it reads.
GetIssueByIdFind_CountsView(q) ==
  /\ q.pc = "get_find"
  /\ req' = Replace(q,
               IF Missing(q.id, issues) THEN Respond(q, 404)
               ELSE Respond([q EXCEPT !.payload = <<IssuePayload(q.id)>>], 200))
  /\ issues' = [i \in DOMAIN issues |->
                  IF i = q.id THEN [issues[i] EXCEPT !.upvotes = @ + 1] ELSE issues[i]]
  /\ UNCHANGED <<users, comments, nextIssue, nextComment, upvoteOk, foreignKeys, currentIssue, loading, notifications, unreadCount, pager>>

\* GET /api/issues/:id: no authentication.
ReqGetIssueById(id) ==
  /\ Arrive([Public("getIssueById", id) EXCEPT !.pc = "get_find"])
  /\ UNCHANGED store

\* await prisma.issue.findUnique(...): 404 or 200.
GetIssueByIdFind(q) ==
  /\ q.pc = "get_find"
  /\ req' = Replace(q,
               IF Missing(q.id, issues) THEN Respond(q, 404)
               ELSE Respond([q EXCEPT !.payload = <<IssuePayload(q.id)>>], 200))
  /\ UNCHANGED store

\* GET /api/issues/:id/comments: no authentication.
ReqGetComments(id) ==
  /\ Arrive([Public("getComments", id) EXCEPT !.pc = "gc_find"])
  /\ UNCHANGED store

\* await prisma.issue.findUnique(...): 404, or findMany is issued.
GetCommentsFind(q) ==
  /\ q.pc = "gc_find"
  /\ req' = Replace(q,
               IF Missing(q.id, issues) THEN Respond(q, 404)
               ELSE [q EXCEPT !.pc = "gc_list"])
  /\ UNCHANGED store

\* await prisma.comment.findMany(...), then 200.
GetCommentsList(q) ==
  /\ q.pc = "gc_list"
  /\ req' = Replace(q, Respond([q EXCEPT !.payload = <<CommentsOf(q.id)>>], 200))
  /\ UNCHANGED store

\* ---- getAllIssues

\* const { status, category, page = 1, limit = 10 } = req.query
QueryPage(query) == IF query.page = <<>> THEN 1 ELSE query.page[1]

QueryLimit(query) == IF query.limit = <<>> THEN 10 ELSE query.limit[1]

\* A skip that counts pages from zero.
Skip_FromZero(query) == QueryPage(query) * QueryLimit(query)

\* const skip = (page - 1) * limit
Skip(query) == (QueryPage(query) - 1) * QueryLimit(query)

\* if (status) filter.status = status; if (category) filter.category = category
IssueFilter(query) ==
  [status |-> IF Truthy(query.status) THEN query.status ELSE Undef,
   category |-> IF Truthy(query.category) THEN query.category ELSE Undef]

\* A filter that forgets the category.
Matching_StatusOnly(filter) ==
  {i \in DOMAIN issues : filter.status = Undef \/ issues[i].status = filter.status}

\* where: filter, over the issue table.
Matching(filter) ==
  {i \in DOMAIN issues :
     /\ filter.status = Undef \/ issues[i].status = filter.status
     /\ filter.category = Undef \/ issues[i].category = filter.category}

\* skip and take of findMany over the ordered rows: a negative take counts from
\* the end of the order.
SkipTake(list, skip, take) ==
  IF take >= 0
     THEN SubSeq(list, skip + 1, IF skip + take < Len(list) THEN skip + take ELSE Len(list))
     ELSE SubSeq(list,
                 IF Len(list) - skip + take + 1 > 1 THEN Len(list) - skip + take + 1 ELSE 1,
                 Len(list) - skip)

\* The where clause names a value outside the column's enum: the query is
\* refused.
PrismaValidFilter(filter) ==
  /\ filter.status \in Statuses \cup {Undef}
  /\ filter.category \in Categories \cup {Undef}

\* Math.ceil(total / limit) for total >= 0.
CeilDiv(total, limit) ==
  IF limit = 0 THEN (IF total = 0 THEN NaN ELSE Infinity)
  ELSE IF limit > 0 THEN Num((total + limit - 1) \div limit)
  ELSE Num(-(total \div (-limit)))

\* pagination: {total, page: parseInt(page), limit: parseInt(limit),
\*              pages: Math.ceil(total / limit)}
PaginationOf(query, total) ==
  [total |-> total, page |-> QueryPage(query), limit |-> QueryLimit(query),
   pages |-> CeilDiv(total, QueryLimit(query))]

\* The rows findMany resolves with, as ids: where, orderBy, skip, take.
FindManyIssues(query) ==
  SkipTake(NewestFirst(Matching(IssueFilter(query))), Skip(query), QueryLimit(query))

\* prisma.issue.count({where: filter})
CountIssues(query) == Cardinality(Matching(IssueFilter(query)))

\* GET /api/issues: no authentication; the handler up to findMany.
ReqGetAllIssues(query) ==
  /\ Arrive([Public("getAllIssues", 0) EXCEPT !.query = query, !.pc = "list_find"])
  /\ UNCHANGED store

\* await prisma.issue.findMany(...): it throws on a negative skip and on a
\* filter the store refuses.
GetAllIssuesFindMany(q) ==
  /\ q.pc = "list_find"
  /\ req' = Replace(q,
               IF Skip(q.query) < 0 \/ ~PrismaValidFilter(IssueFilter(q.query))
                  THEN NextError(q)
                  ELSE [q EXCEPT !.pc = "list_count",
                                 !.list = FindManyIssues(q.query)])
  /\ UNCHANGED store

\* await prisma.issue.count({where: filter}), then 200 with results and the
\* pagination block.
GetAllIssuesCount(q) ==
  /\ q.pc = "list_count"
  /\ req' = Replace(q,
               Respond([q EXCEPT !.pagination = PaginationOf(q.query, CountIssues(q.query))],
                       200))
  /\ UNCHANGED store

\* ---- deleting one comment

\* The guard with every authenticated user let through.
CanDeleteComment_Anyone(comment, user) == TRUE

\* "Delete comment: author OR role=ADMIN".
CanDeleteComment(comment, user) ==
  comment.authorId = user.id \/ user.role = "ADMIN"

\* DELETE of comment commentId, sent by the browser with its view of the issue:
\* authentication, then the handler up to its lookup of the comment.
ReqDeleteComment(hdr, id, commentId, view) ==
  /\ LET q == [Authenticated("deleteComment", hdr, id, EmptyBody)
                 EXCEPT !.commentId = commentId, !.view = view]
     IN Arrive(IF q.pc = "done" THEN q ELSE [q EXCEPT !.pc = "dc_find"])
  /\ UNCHANGED store

\* The request after the lookup: 404, 403, or the deletion is issued.
DeleteCommentChecked(q) ==
  IF q.commentId \notin DOMAIN comments THEN Respond(q, 404)
  ELSE IF ~CanDeleteComment(comments[q.commentId], q.user) THEN Respond(q, 403)
  ELSE [q EXCEPT !.pc = "dc_delete"]

\* The lookup of the comment and the checks that follow it.
DeleteCommentFind(q) ==
  /\ q.pc = "dc_find"
  /\ req' = Replace(q, DeleteCommentChecked(q))
  /\ UNCHANGED store

\* The deletion of the one row: it throws when the row is gone; then 200, on
\* its way to the browser.
DeleteCommentRow(q) ==
  /\ q.pc = "dc_delete"
  /\ IF q.commentId \notin DOMAIN comments
        THEN /\ req' = Replace(q, NextError(q))
             /\ UNCHANGED comments
        ELSE /\ comments' = [c \in DOMAIN comments \ {q.commentId} |-> comments[c]]
             /\ req' = Replace(q,
                          [q EXCEPT !.pc = "dc_settle", !.status = 200,
                                    !.effects = @ \cup {"comment_delete"}])
  /\ UNCHANGED <<users, issues, nextIssue, nextComment, upvoteOk, foreignKeys, currentIssue, loading, notifications, unreadCount, pager>>

\* ---------------------------------------------------------------- browser

\* comment.userId as the Comments component reads it: the rows the API returns
\* carry authorId and no userId, and a field that is not there reads undefined
\* (0 here, which is no user's id).
CommentUserId(comment) ==
  IF "userId" \in DOMAIN comment THEN comment.userId ELSE 0

\* isOwner={isAuthenticated && user?.id === comment.userId}
IsOwner(user, comment) == user.id # 0 /\ user.id = CommentUserId(comment)

\* isAdmin={isAuthenticated && user?.role === 'ADMIN'}
IsAdmin(user) == user.id # 0 /\ user.role = "ADMIN"

\* {(isOwner || isAdmin) && <button onClick={handleDelete} ...>}
DeleteButtonShown(user, comment) == IsOwner(user, comment) \/ IsAdmin(user)

\* useAuth() in the browser of the holder of header hdr.
Viewer(hdr) ==
  IF hdr.kind = "bearer" /\ hdr.sub \in DOMAIN users
     THEN [id |-> hdr.sub, role |-> users[hdr.sub].role]
     ELSE [id |-> 0, role |-> "none"]

\* fetchIssueById: GET /api/issues/:id answers the issue with its comments,
\* and setCurrentIssue(response.data) keeps it.
FetchIssueById(id) ==
  /\ ~Missing(id, issues)
  /\ currentIssue' =
       [id |-> id, comments |-> {c \in DOMAIN comments : comments[c].issueId = id}]
  /\ UNCHANGED <<users, issues, comments, nextIssue, nextComment, req, upvoteOk, foreignKeys, loading, notifications, unreadCount, pager>>

\* Comment.handleDelete: the button of a rendered comment is clicked and
\* confirmed, and api.delete(`/comments/${comment.id}`) is sent. The component
\* holds no state of the provider.
HandleDelete(hdr, commentId) ==
  /\ commentId \in currentIssue.comments
  /\ commentId \in DOMAIN comments
  /\ DeleteButtonShown(Viewer(hdr), comments[commentId])
  /\ ReqDeleteComment(hdr, 0, commentId, NoCurrentIssue)

\* IssueProvider.deleteComment(issueId, commentId) up to its await: the call
\* closes over the currentIssue of the render it was made in.
DeleteComment(hdr, issueId, commentId) ==
  ReqDeleteComment(hdr, issueId, commentId, currentIssue)

\* if (currentIssue && currentIssue.id === issueId) setCurrentIssue({
\*   ...currentIssue, comments: currentIssue.comments.filter(c => c.id !== commentId)})
CurrentIssueAfterDelete(view, issueId, commentId) ==
  [view EXCEPT !.comments = @ \ {commentId}]

\* The delete resolved in the browser: the provider filters its list when the
\* issue it had loaded is the comment's; then the request is over.
DeleteCommentSettled(q) ==
  /\ q.pc = "dc_settle"
  /\ currentIssue' =
       IF q.view.id # 0 /\ q.view.id = q.id
          THEN CurrentIssueAfterDelete(q.view, q.id, q.commentId)
          ELSE currentIssue
  /\ req' = Replace(q, [q EXCEPT !.pc = "done"])
  /\ UNCHANGED <<users, issues, comments, nextIssue, nextComment, upvoteOk, foreignKeys, loading, notifications, unreadCount, pager>>

\* Math.max(1, n)
AtLeastOne(n) == IF n < 1 THEN 1 ELSE n

\* getPaginationParams(page = 1, limit = 10): {page, limit, skip}
GetPaginationParams(page, limit) ==
  [page |-> AtLeastOne(page), limit |-> AtLeastOne(limit),
   skip |-> (AtLeastOne(page) - 1) * AtLeastOne(limit)]

\* parsePaginationParams(query): an absent parameter takes its default, a
\* present one is parsed and raised to 1.
ParsePaginationParams(query) ==
  [page |-> IF query.page = <<>> THEN 1 ELSE AtLeastOne(query.page[1]),
   limit |-> IF query.limit = <<>> THEN 10 ELSE AtLeastOne(query.limit[1])]

\* A page of the application reads page and limit from its URL with
\* parsePaginationParams, prepares them with getPaginationParams and asks for
\* the list.
ListFromUrl(url) ==
  LET parsed == ParsePaginationParams(url)
      params == GetPaginationParams(parsed.page, parsed.limit)
  IN ReqGetAllIssues([NoQuery EXCEPT !.page = <<params.page>>,
                                     !.limit = <<params.limit>>])

\* ---- IssueProvider: the loading flag

\* What the provider leaves alone while one of its calls starts or settles.
Backend == <<users, issues, comments, nextIssue, nextComment, upvoteOk, foreignKeys>>

\* api.get(`/issues?page=..&limit=..`) of fetchIssues(page = 1, limit = 10),
\* with the provider's filters all empty.
FetchIssuesRequest ==
  [Public("getAllIssues", 0) EXCEPT
     !.query = [NoQuery EXCEPT !.page = <<1>>, !.limit = <<10>>],
     !.pc = "list_find"]

\* api.post('/issues', issueData) as the server takes it in.
CreateIssueRequest(hdr, body) ==
  LET q == Authenticated("createIssue", hdr, 0, body)
  IN IF q.pc = "done" THEN q
     ELSE IF ~CreateIssueValid(body) THEN Respond(q, 400)
     ELSE [q EXCEPT !.pc = "crt_create"]

\* api.put(`/issues/${id}`, issueData) as the server takes it in.
UpdateIssueRequest(hdr, id, body) ==
  LET q == Authenticated("updateIssue", hdr, id, body)
  IN IF q.pc = "done" THEN q ELSE [q EXCEPT !.pc = "upd_find"]

\* axios resolves a 2xx answer and rejects every other one.
Resolved(q) == q.status \in {200, 201}

\* fetchIssues up to its await: setLoading(true), then the GET is sent.
FetchIssues ==
  /\ loading' = TRUE
  /\ Arrive(FetchIssuesRequest)
  /\ UNCHANGED <<Backend, currentIssue, notifications, unreadCount, pager>>

\* fetchIssues after its await: the answer is kept or the error reported, and
\* finally setLoading(false).
FetchIssuesSettled(q) ==
  /\ q.op = "getAllIssues" /\ q.pc = "done"
  /\ loading' = FALSE
  /\ req' = req (-) SetToBag({q})
  /\ UNCHANGED <<Backend, currentIssue, notifications, unreadCount, pager>>

\* createIssue up to its await: setLoading(true), then the POST is sent.
CreateIssue(hdr, body) ==
  /\ nextIssue + PendingCreates <= MaxIssues
  /\ loading' = TRUE
  /\ Arrive(CreateIssueRequest(hdr, body))
  /\ UNCHANGED <<Backend, currentIssue, notifications, unreadCount, pager>>

\* createIssue after its await. A resolved POST calls fetchIssues(...) without
\* awaiting it: that call runs to its own await (setLoading(true), GET sent) and
\* hands back a promise; then the finally block of createIssue runs
\* setLoading(false). A rejected POST goes through catch to the same finally.
CreateIssueSettled(q) ==
  /\ q.op = "createIssue" /\ q.pc = "done"
  /\ req' = IF Resolved(q) THEN Replace(q, FetchIssuesRequest)
                           ELSE req (-) SetToBag({q})
  /\ loading' = FALSE
  /\ UNCHANGED <<Backend, currentIssue, notifications, unreadCount, pager>>

\* updateIssue up to its await: setLoading(true), then the PUT is sent.
UpdateIssue(hdr, id, body) ==
  /\ loading' = TRUE
  /\ Arrive(UpdateIssueRequest(hdr, id, body))
  /\ UNCHANGED <<Backend, currentIssue, notifications, unreadCount, pager>>

\* updateIssue after its await: a resolved PUT replaces the loaded issue when
\* it is the one updated (the answer carries no comments), starts the refresh
\* without awaiting it, and the finally block runs setLoading(false).
UpdateIssueSettled(q) ==
  /\ q.op = "updateIssue" /\ q.pc = "done"
  /\ req' = IF Resolved(q) THEN Replace(q, FetchIssuesRequest)
                           ELSE req (-) SetToBag({q})
  /\ currentIssue' =
       IF Resolved(q) /\ currentIssue.id # 0 /\ currentIssue.id = q.id
          THEN [id |-> q.id, comments |-> {}]
          ELSE currentIssue
  /\ loading' = FALSE
  /\ UNCHANGED <<Backend, notifications, unreadCount, pager>>

\* ---- NotificationProvider

NotificationIds == 1..MaxNotifications

\* The notifications of a list that are not read.
Unread(list) == {n \in DOMAIN list : ~list[n].read}

\* What GET /api/notifications can answer: any of the user's notifications,
\* each read or not.
NotificationLists ==
  UNION {[S -> [read : BOOLEAN]] : S \in SUBSET NotificationIds}

\* Math.max(0, prevCount - 1)
Decremented(prevCount) == IF prevCount - 1 < 0 THEN 0 ELSE prevCount - 1

\* What the provider's calls leave alone.
OutsideNotifications ==
  <<users, issues, comments, nextIssue, nextComment, req, upvoteOk, foreignKeys,
    currentIssue, loading, pager>>

\* fetchNotifications resolved: the list and the count of the answer are kept;
\* the count of the answer is the number of unread notifications in its list.
FetchNotifications(list) ==
  /\ notifications' = list
  /\ unreadCount' = Cardinality(Unread(list))
  /\ UNCHANGED OutsideNotifications

\* markAsRead(notificationId) resolved: the notification is mapped to
\* read: true, and the count is decremented whatever the notification was.
MarkAsRead(notificationId) ==
  /\ notificationId \in DOMAIN notifications
  /\ notifications' = [notifications EXCEPT ![notificationId].read = TRUE]
  /\ unreadCount' = Decremented(unreadCount)
  /\ UNCHANGED OutsideNotifications

\* markAllAsRead resolved.
MarkAllAsRead ==
  /\ notifications' = [n \in DOMAIN notifications |-> [notifications[n] EXCEPT !.read = TRUE]]
  /\ unreadCount' = 0
  /\ UNCHANGED OutsideNotifications

\* deleteNotification(notificationId) resolved: the notification is looked up
\* in the list and filtered out of it; the count goes down when it was found
\* and unread.
DeleteNotification(notificationId) ==
  /\ notificationId \in DOMAIN notifications
  /\ notifications' =
       [n \in DOMAIN notifications \ {notificationId} |-> notifications[n]]
  /\ unreadCount' =
       IF ~notifications[notificationId].read THEN Decremented(unreadCount)
                                              ELSE unreadCount
  /\ UNCHANGED OutsideNotifications

\* clearAllNotifications resolved.
ClearAllNotifications ==
  /\ notifications' = <<>>
  /\ unreadCount' = 0
  /\ UNCHANGED OutsideNotifications

\* ---- Pagination

\* Math.min, Math.max
Min(a, b) == IF a < b THEN a ELSE b
Max(a, b) == IF a > b THEN a ELSE b

\* for (let i = startPage; i <= endPage; i++) pages.push(i)
PagesFromTo(startPage, endPage) ==
  IF endPage < startPage THEN <<>>
  ELSE [i \in 1..(endPage - startPage + 1) |-> startPage + i - 1]

\* Every page listed, however many buttons were asked for.
GetPageNumbers_AllPages(currentPage, totalPages, maxPageButtons) ==
  [i \in 1..totalPages |-> i]

\* getPageNumbers(currentPage, totalPages, maxPageButtons = 5)
GetPageNumbers(currentPage, totalPages, maxPageButtons) ==
  IF totalPages <= maxPageButtons
     THEN [i \in 1..totalPages |-> i]
     ELSE
       LET leftSideCount == (maxPageButtons - 3) \div 2
           rightSideCount == maxPageButtons - 3 - leftSideCount
           nearBeginning == currentPage - leftSideCount < 2
           nearEnd == currentPage + rightSideCount > totalPages - 1
           startPage == IF nearEnd THEN Max(2, totalPages - maxPageButtons + 2)
                                   ELSE Max(2, currentPage - leftSideCount)
           endPage == IF nearBeginning THEN Min(totalPages - 1, maxPageButtons - 2)
                                       ELSE Min(totalPages - 1, currentPage + rightSideCount)
       IN <<1>>
          \o (IF startPage > 2 THEN <<Ellipsis>> ELSE <<>>)
          \o PagesFromTo(startPage, endPage)
          \o (IF endPage < totalPages - 1 THEN <<Ellipsis>> ELSE <<>>)
          \o (IF totalPages > 1 THEN <<totalPages>> ELSE <<>>)

\* What the browser leaves alone while it shows or follows page links.
OutsidePager ==
  <<users, issues, comments, nextIssue, nextComment, req, upvoteOk, foreignKeys,
    currentIssue, loading, notifications, unreadCount>>

\* The Pagination component is rendered: nothing for a single page, else the
\* entries of getPageNumbers.
Pagination ==
  /\ pager.pageNumbers = <<>>
  /\ pager.totalPages > 1
  /\ pager' = [pager EXCEPT !.pageNumbers =
                GetPageNumbers(pager.currentPage, pager.totalPages, pager.maxPageButtons)]
  /\ UNCHANGED OutsidePager

\* createPageUrl(page) is followed: the page is shown anew with that page.
CreatePageUrl(page) == [pager EXCEPT !.currentPage = page, !.pageNumbers = <<>>]

\* The Previous link: href is '#' and the click is prevented on the first page.
PreviousPage ==
  /\ pager.pageNumbers # <<>>
  /\ pager.currentPage > 1
  /\ pager' = CreatePageUrl(pager.currentPage - 1)
  /\ UNCHANGED OutsidePager

\* The link of one page number; an ellipsis is a span, not a link.
PageLink(index) ==
  /\ index \in DOMAIN pager.pageNumbers
  /\ pager.pageNumbers[index] # Ellipsis
  /\ pager' = CreatePageUrl(pager.pageNumbers[index])
  /\ UNCHANGED OutsidePager

\* The Next link: href is '#' and the click is prevented on the last page.
NextPage ==
  /\ pager.pageNumbers # <<>>
  /\ pager.currentPage < pager.totalPages
  /\ pager' = CreatePageUrl(pager.currentPage + 1)
  /\ UNCHANGED OutsidePager

\* ---------------------------------------------------------------- user controller

\* The user routes that run the admin middleware after authentication
\* (GET /api/users and PUT /api/users/:id/role).
AdminOnlyRoute(op) == op \in {"getAllUsers", "updateUserRole"}

\* The request after the admin middleware, on the routes that run it.
AdminChecked(q) ==
  IF q.pc # "done" /\ AdminOnlyRoute(q.op) /\ ~AdminMiddleware(q.user)
  THEN Respond(q, 403) ELSE q

\* getUserById's and updateUser's guard: the user themselves or an ADMIN.
CanAccessUser(id, user) == ~(id # user.id /\ user.role # "ADMIN")

\* getUserIssues' guard: the user themselves, an ADMIN or an OFFICIAL.
CanListUserIssues(id, user) ==
  ~(id # user.id /\ user.role # "ADMIN" /\ user.role # "OFFICIAL")

\* The handler without its role check.
ValidRole_Any(role) == TRUE

\* ['CITIZEN', 'OFFICIAL', 'ADMIN'].includes(role)
ValidRole(role) == role \in {"CITIZEN", "OFFICIAL", "ADMIN"}

\* A profile update that passes the role of the body on to the store as well.
UserAfterUpdate_WithRole(row, body) ==
  [row EXCEPT
     !.name = IF body.name = Undef THEN @ ELSE body.name,
     !.profilePicture = IF body.profilePicture = Undef THEN @ ELSE body.profilePicture,
     !.role = IF body.role = Undef THEN @ ELSE body.role]

\* prisma.user.update({data: {name, profilePicture}}): undefined is left as it is.
UserAfterUpdate(row, body) ==
  [row EXCEPT
     !.name = IF body.name = Undef THEN @ ELSE body.name,
     !.profilePicture = IF body.profilePicture = Undef THEN @ ELSE body.profilePicture]

\* prisma.user.update({data: {role}})
UserAfterRoleUpdate(row, body) == [row EXCEPT !.role = body.role]

\* ---- getUserById

\* GET /api/users/:id: authentication, the guard, then findUnique is issued.
ReqGetUserById(hdr, id) ==
  /\ LET q == Authenticated("getUserById", hdr, id, EmptyBody)
     IN Arrive(IF q.pc = "done" THEN q
                  ELSE IF ~CanAccessUser(id, q.user) THEN Respond(q, 403)
                  ELSE [q EXCEPT !.pc = "gu_find"])
  /\ UNCHANGED store

\* await prisma.user.findUnique(...): 404 or 200.
GetUserByIdFind(q) ==
  /\ q.pc = "gu_find"
  /\ req' = Replace(q,
               IF Missing(q.id, users) THEN Respond(q, 404) ELSE Respond(q, 200))
  /\ UNCHANGED store

\* ---- updateUser

\* PUT /api/users/:id: authentication, the guard, then findUnique is issued.
ReqUpdateUser(hdr, id, body) ==
  /\ LET q == Authenticated("updateUser", hdr, id, body)
     IN Arrive(IF q.pc = "done" THEN q
                  ELSE IF ~CanAccessUser(id, q.user) THEN Respond(q, 403)
                  ELSE [q EXCEPT !.pc = "uu_find"])
  /\ UNCHANGED store

\* await prisma.user.findUnique(...): 404, or the update is issued.
UpdateUserFind(q) ==
  /\ q.pc = "uu_find"
  /\ req' = Replace(q,
               IF Missing(q.id, users) THEN Respond(q, 404)
               ELSE [q EXCEPT !.pc = "uu_write"])
  /\ UNCHANGED store

\* await prisma.user.update(...), then 200.
UpdateUserWrite(q) ==
  /\ q.pc = "uu_write"
  /\ IF Missing(q.id, users)
        THEN /\ req' = Replace(q, NextError(q))
             /\ UNCHANGED users
        ELSE /\ users' = [users EXCEPT ![q.id] = UserAfterUpdate(@, q.body)]
             /\ req' = Replace(q,
                          Respond([q EXCEPT !.effects = @ \cup {"user_write"}], 200))
  /\ UNCHANGED <<issues, comments, nextIssue, nextComment, upvoteOk, foreignKeys, currentIssue, loading, notifications, unreadCount, pager>>

\* ---- getUserIssues

\* GET /api/users/:id/issues: authentication, the guard, then findUnique is issued.
ReqGetUserIssues(hdr, id) ==
  /\ LET q == Authenticated("getUserIssues", hdr, id, EmptyBody)
     IN Arrive(IF q.pc = "done" THEN q
                  ELSE IF ~CanListUserIssues(id, q.user) THEN Respond(q, 403)
                  ELSE [q EXCEPT !.pc = "gi_find"])
  /\ UNCHANGED store

\* await prisma.user.findUnique(...): 404, or findMany is issued.
GetUserIssuesFind(q) ==
  /\ q.pc = "gi_find"
  /\ req' = Replace(q,
               IF Missing(q.id, users) THEN Respond(q, 404)
               ELSE [q EXCEPT !.pc = "gi_list"])
  /\ UNCHANGED store

\* await prisma.issue.findMany(...), then 200.
GetUserIssuesList(q) ==
  /\ q.pc = "gi_list"
  /\ req' = Replace(q, Respond(q, 200))
  /\ UNCHANGED store

\* ---- updateUserRole

\* PUT /api/users/:id/role: authentication, the admin middleware, the role
\* check, then findUnique is issued.
ReqUpdateUserRole(hdr, id, body) ==
  /\ LET q == AdminChecked(Authenticated("updateUserRole", hdr, id, body))
     IN Arrive(IF q.pc = "done" THEN q
                  ELSE IF ~ValidRole(body.role) THEN Respond(q, 400)
                  ELSE [q EXCEPT !.pc = "ur_find"])
  /\ UNCHANGED store

\* await prisma.user.findUnique(...): 404, or the update is issued.
UpdateUserRoleFind(q) ==
  /\ q.pc = "ur_find"
  /\ req' = Replace(q,
               IF Missing(q.id, users) THEN Respond(q, 404)
               ELSE [q EXCEPT !.pc = "ur_write"])
  /\ UNCHANGED store

\* await prisma.user.update(...), then 200.
UpdateUserRoleWrite(q) ==
  /\ q.pc = "ur_write"
  /\ IF Missing(q.id, users)
        THEN /\ req' = Replace(q, NextError(q))
             /\ UNCHANGED users
        ELSE /\ users' = [users EXCEPT ![q.id] = UserAfterRoleUpdate(@, q.body)]
             /\ req' = Replace(q,
                          Respond([q EXCEPT !.effects = @ \cup {"role_write"}], 200))
  /\ UNCHANGED <<issues, comments, nextIssue, nextComment, upvoteOk, foreignKeys, currentIssue, loading, notifications, unreadCount, pager>>

\* ---- the end of a request

\* The response has been sent: the request leaves.
Finish(q) ==
  /\ q.pc = "done"
  /\ req' = req (-) SetToBag({q})
  /\ UNCHANGED store

\* ---------------------------------------------------------------- inputs

\* The users in the store when the service starts: two citizens, an official
\* and an administrator.
InitialUsers ==
  [u \in UserIds |->
     [email |-> <<"mail", u>>, name |-> "n", profilePicture |-> "none",
      password |-> <<"hash", u>>,
      role |-> IF u = 3 THEN "OFFICIAL" ELSE IF u = 4 THEN "ADMIN" ELSE "CITIZEN"]]

\* The headers of requests that carry the token the server issued to a user.
UserHeaders == {TokenOf(u) : u \in UserIds}

\* Bodies of POST /api/issues.
CreateBodies ==
  {[EmptyBody EXCEPT !.title = "t", !.description = "d", !.location = "l",
                     !.category = "ROADS"]}

\* Bodies of PUT /api/issues/:id: a status, a status outside the enum, a title.
UpdateBodies ==
  {[EmptyBody EXCEPT !.status = "RESOLVED"],
   [EmptyBody EXCEPT !.title = "t2"]}

StatusBodies ==
  {[EmptyBody EXCEPT !.status = "RESOLVED"],
   [EmptyBody EXCEPT !.status = "BOGUS"]}

\* A body of PUT /api/issues/:id that changes the title alone.
TitleBodies == {[EmptyBody EXCEPT !.title = "t2"]}

\* Bodies of PUT /api/issues/:id that the store accepts.
AcceptedUpdateBodies == {[EmptyBody EXCEPT !.status = "RESOLVED", !.title = "t2"]}

\* Bodies of POST /api/issues/:id/comments.
CommentBodies == {[EmptyBody EXCEPT !.content = "c"]}

\* ---------------------------------------------------------------- routes

\* POST /api/issues with headers H, bodies B and mail outcomes M.
CreateIssueRoute(H, B, M) ==
  \/ \E h \in H, b \in B : ReqCreateIssue(h, b)
  \/ \E q \in InFlight : CreateIssueInsert(q)
  \/ \E q \in InFlight, ok \in M : CreateIssueMailReporter(q, ok)
  \/ \E q \in InFlight, ok \in M : CreateIssueMailAdmins(q, ok)

\* PUT /api/issues/:id with headers H, bodies B and mail outcomes M.
UpdateIssueRoute(H, B, M) ==
  \/ \E h \in H, i \in IssueIds, b \in B : ReqUpdateIssue(h, i, b)
  \/ \E q \in InFlight : UpdateIssueFind(q)
  \/ \E q \in InFlight : UpdateIssueWrite(q)
  \/ \E q \in InFlight, ok \in M : UpdateIssueMail(q, ok)

\* DELETE /api/issues/:id with headers H.
DeleteIssueRoute(H) ==
  \/ \E h \in H, i \in IssueIds : ReqDeleteIssue(h, i)
  \/ \E q \in InFlight : DeleteIssueFind(q)
  \/ \E q \in InFlight : DeleteIssueComments(q)
  \/ \E q \in InFlight : DeleteIssueRow(q)

\* POST /api/issues/:id/upvote with headers H.
UpvoteIssueRoute(H) ==
  \/ \E h \in H, i \in IssueIds : ReqUpvoteIssue(h, i)
  \/ \E q \in InFlight : UpvoteIssueFind(q)
  \/ \E q \in InFlight : UpvoteIssueWrite(q)

\* POST /api/issues/:id/comments with headers H and bodies B.
AddCommentRoute(H, B) ==
  \/ \E h \in H, i \in IssueIds, b \in B : ReqAddComment(h, i, b)
  \/ \E q \in InFlight : AddCommentFind(q)
  \/ \E q \in InFlight : AddCommentInsert(q)

\* GET /api/issues/:id
GetIssueByIdRoute ==
  \/ \E i \in IssueIds : ReqGetIssueById(i)
  \/ \E q \in InFlight : GetIssueByIdFind(q)

\* GET /api/issues/:id/comments
GetCommentsRoute ==
  \/ \E i \in IssueIds : ReqGetComments(i)
  \/ \E q \in InFlight : GetCommentsFind(q)
  \/ \E q \in InFlight : GetCommentsList(q)

\* GET /api/users/:id with headers H and ids U.
GetUserByIdRoute(H, U) ==
  \/ \E h \in H, u \in U : ReqGetUserById(h, u)
  \/ \E q \in InFlight : GetUserByIdFind(q)

\* PUT /api/users/:id with headers H, ids U and bodies B.
UpdateUserRoute(H, U, B) ==
  \/ \E h \in H, u \in U, b \in B : ReqUpdateUser(h, u, b)
  \/ \E q \in InFlight : UpdateUserFind(q)
  \/ \E q \in InFlight : UpdateUserWrite(q)

\* GET /api/users/:id/issues with headers H and ids U.
GetUserIssuesRoute(H, U) ==
  \/ \E h \in H, u \in U : ReqGetUserIssues(h, u)
  \/ \E q \in InFlight : GetUserIssuesFind(q)
  \/ \E q \in InFlight : GetUserIssuesList(q)

\* PUT /api/users/:id/role with headers H, ids U and bodies B.
UpdateUserRoleRoute(H, U, B) ==
  \/ \E h \in H, u \in U, b \in B : ReqUpdateUserRole(h, u, b)
  \/ \E q \in InFlight : UpdateUserRoleFind(q)
  \/ \E q \in InFlight : UpdateUserRoleWrite(q)

\* A response has been sent.
Leave == \E q \in InFlight : Finish(q)

\* No answered request is waiting to leave. An answered request takes no further
\* step and touches nothing, so every specification lets it leave before the
\* next step of any other request.
Quiet == \A q \in InFlight : q.pc # "done"

\* ---------------------------------------------------------------- specification

Init ==
  /\ users = InitialUsers
  /\ issues = <<>>
  /\ comments = <<>>
  /\ nextIssue = 1
  /\ nextComment = 1
  /\ req = EmptyBag
  /\ upvoteOk = [i \in IssueIds |-> [u \in UserIds |-> 0]]
  /\ foreignKeys \in BOOLEAN
  /\ currentIssue = NoCurrentIssue
  /\ loading = FALSE
  /\ notifications = <<>>
  /\ unreadCount = 0
  /\ pager = NoPager

\* The header of the citizen who reports the issues.
ReporterHeaders == {TokenOf(1)}

\* The header of the citizen who comments.
CommenterHeaders == {TokenOf(2)}

\* Every form of the Authorization header: absent, not a bearer header, and a
\* bearer token for the administrator or for nobody, with a good or bad
\* signature, expired or not.
AnyHeaders ==
  {NoHeader, Malformed}
    \cup {Bearer(u, g, e) : u \in {4, GhostUser}, g \in BOOLEAN, e \in BOOLEAN}

\* Bodies of PUT /api/users/:id/role.
RoleBodies == {[EmptyBody EXCEPT !.role = x] : x \in {"CITIZEN", "ADMIN", "SUPERUSER"}}

\* A body of PUT /api/users/:id/role that takes the administrator role away.
DemoteBodies == {[EmptyBody EXCEPT !.role = "CITIZEN"]}

\* Bodies of PUT /api/users/:id.
ProfileBodies == {[EmptyBody EXCEPT !.name = "n2"]}

\* Issues are reported and updated.
NextUpdate ==
  \/ /\ Quiet
     /\ CreateIssueRoute(ReporterHeaders, CreateBodies, {TRUE})
        \/ UpdateIssueRoute(UserHeaders, UpdateBodies, {TRUE})
  \/ Leave

SpecUpdate == Init /\ [][NextUpdate]_vars

\* Updates of the status by the reporter and by another citizen.
NextStatus ==
  \/ /\ Quiet
     /\ CreateIssueRoute(ReporterHeaders, CreateBodies, {TRUE})
        \/ UpdateIssueRoute(ReporterHeaders \cup CommenterHeaders, StatusBodies, {TRUE})
  \/ Leave

SpecStatus == Init /\ [][NextStatus]_vars

\* Issues are reported, commented, read and deleted.
NextDelete ==
  \/ /\ Quiet
     /\ CreateIssueRoute(ReporterHeaders, CreateBodies, {TRUE})
        \/ AddCommentRoute(CommenterHeaders, CommentBodies)
        \/ DeleteIssueRoute(UserHeaders)
        \/ GetIssueByIdRoute
        \/ GetCommentsRoute
  \/ Leave

SpecDelete == Init /\ [][NextDelete]_vars

\* Issues are reported, upvoted and read.
NextUpvote ==
  \/ /\ Quiet
     /\ CreateIssueRoute(ReporterHeaders, CreateBodies, {TRUE})
        \/ UpvoteIssueRoute(CommenterHeaders \cup ReporterHeaders)
        \/ GetIssueByIdRoute
  \/ Leave

SpecUpvote == Init /\ [][NextUpvote]_vars

\* Issues are reported, upvoted, updated and commented.
NextCounter ==
  \/ /\ Quiet
     /\ CreateIssueRoute(ReporterHeaders, CreateBodies, {TRUE})
        \/ UpvoteIssueRoute(CommenterHeaders)
        \/ UpdateIssueRoute(ReporterHeaders, TitleBodies, {TRUE})
        \/ AddCommentRoute(CommenterHeaders, CommentBodies)
  \/ Leave

SpecCounter == Init /\ [][NextCounter]_vars

\* The headers of a citizen, the official and the administrator.
RoleHeaders == {TokenOf(1), TokenOf(3), TokenOf(4)}

\* The users whose role or profile the requests name.
RoleTargets == {1, 4}

\* Roles and profiles are changed while issues are reported.
NextRoles ==
  \/ /\ Quiet
     /\ UpdateUserRoleRoute(RoleHeaders, RoleTargets, RoleBodies)
        \/ UpdateUserRoute(RoleHeaders, {1}, ProfileBodies)
        \/ CreateIssueRoute(ReporterHeaders, CreateBodies, {TRUE})
  \/ Leave

SpecRoles == Init /\ [][NextRoles]_vars

\* The headers of the reporter, another citizen and the administrator.
LookupHeaders == {TokenOf(1), TokenOf(2), TokenOf(4)}

\* A user id in the store and one that is not.
LookupTargets == {1, GhostUser}

\* Issues and users are looked up by id, existing or not.
NextNotFound ==
  \/ /\ Quiet
     /\ CreateIssueRoute(ReporterHeaders, CreateBodies, {TRUE})
        \/ UpdateIssueRoute(LookupHeaders, AcceptedUpdateBodies, {TRUE})
        \/ DeleteIssueRoute(LookupHeaders)
        \/ GetUserByIdRoute(LookupHeaders, LookupTargets)
        \/ UpdateUserRoute(LookupHeaders, LookupTargets, ProfileBodies)
        \/ GetUserIssuesRoute(LookupHeaders, LookupTargets)
  \/ Leave

SpecNotFound == Init /\ [][NextNotFound]_vars

\* Requests arrive with every form of the Authorization header while roles and
\* profiles change.
NextAuth ==
  \/ /\ Quiet
     /\ UpvoteIssueRoute(AnyHeaders)
        \/ CreateIssueRoute(ReporterHeaders, CreateBodies, {TRUE})
        \/ UpdateUserRoute(AnyHeaders, {4}, ProfileBodies)
        \/ UpdateUserRoleRoute(AnyHeaders, {4}, DemoteBodies)
  \/ Leave

SpecAuth == Init /\ [][NextAuth]_vars

\* Bodies of POST /api/issues: two that the validators accept, one of them with a
\* status the handler does not read, and one for each way to fail a validator.
CreateCaseBodies ==
  LET ok == [EmptyBody EXCEPT !.title = "t", !.description = "d", !.location = "l",
                              !.category = "ROADS"]
  IN {ok,
      [ok EXCEPT !.category = "WATER", !.status = "CLOSED"],
      [ok EXCEPT !.title = ""],
      [ok EXCEPT !.description = Undef],
      [ok EXCEPT !.location = ""],
      [ok EXCEPT !.category = "POTHOLES"]}

\* Issues are reported by a citizen, the official and the administrator, with
\* bodies the validators accept and refuse, and mails that are sent or fail.
NextCreate ==
  \/ /\ Quiet
     /\ CreateIssueRoute(RoleHeaders, CreateCaseBodies, BOOLEAN)
        \/ GetIssueByIdRoute
  \/ Leave

SpecCreate == Init /\ [][NextCreate]_vars

\* Bodies of PUT /api/issues/:id: a status other than the one issues are created
\* with, the status they are created with, and no status.
NotifyBodies ==
  {[EmptyBody EXCEPT !.status = "RESOLVED"],
   [EmptyBody EXCEPT !.status = "REPORTED"],
   [EmptyBody EXCEPT !.title = "t2"]}

\* The headers of the reporter and of the official.
NotifyHeaders == {TokenOf(1), TokenOf(3)}

\* Issues are reported and updated, and each mail is sent or fails.
NextNotify ==
  \/ /\ Quiet
     /\ CreateIssueRoute(ReporterHeaders, CreateBodies, BOOLEAN)
        \/ UpdateIssueRoute(NotifyHeaders, NotifyBodies, BOOLEAN)
  \/ Leave

SpecNotify == Init /\ [][NextNotify]_vars

\* Bodies of PUT /api/issues/:id: each of the five statuses.
TransitionBodies == {[EmptyBody EXCEPT !.status = x] : x \in Statuses}

\* Issues are reported, and their status is set by the reporter, the official and
\* the administrator, one request at a time.
NextTransitions ==
  \/ /\ Quiet
     /\ CreateIssueRoute(ReporterHeaders, CreateBodies, {TRUE})
        \/ UpdateIssueRoute(RoleHeaders, TransitionBodies, {TRUE})
     /\ BagCardinality(req') <= 1
  \/ Leave

SpecTransitions == Init /\ [][NextTransitions]_vars

\* Bodies of PUT /api/issues/:id that set some of the fields and leave the others
\* out; one names another user as the reporter.
FrameBodies ==
  {[EmptyBody EXCEPT !.title = "t2", !.reporterId = 2],
   [EmptyBody EXCEPT !.status = "RESOLVED", !.category = "WATER"]}

\* Issues are reported, updated by the reporter and by another citizen, upvoted
\* and commented, one request at a time.
NextFrame ==
  \/ /\ Quiet
     /\ CreateIssueRoute(ReporterHeaders, CreateBodies, {TRUE})
        \/ UpdateIssueRoute(ReporterHeaders \cup CommenterHeaders, FrameBodies, {TRUE})
        \/ UpvoteIssueRoute(CommenterHeaders)
        \/ AddCommentRoute(CommenterHeaders, CommentBodies)
     /\ BagCardinality(req') <= 1
  \/ Leave

SpecFrame == Init /\ [][NextFrame]_vars

\* Bodies of PUT /api/users/:id: a name together with a role the handler does not
\* read, and a profile picture.
ProfileCaseBodies ==
  {[EmptyBody EXCEPT !.name = "n2", !.role = "ADMIN"],
   [EmptyBody EXCEPT !.profilePicture = "p2"]}

\* The users whose profile the requests name: a citizen and the official.
ProfileTargets == {1, 3}

\* Profiles are updated by a citizen, the official and the administrator.
NextProfile ==
  \/ /\ Quiet
     /\ UpdateUserRoute(RoleHeaders, ProfileTargets, ProfileCaseBodies)
  \/ Leave

SpecProfile == Init /\ [][NextProfile]_vars

\* Bodies of PUT /api/users/:id/role: a role, a value that is no role, no role.
RoleValueBodies ==
  {[EmptyBody EXCEPT !.role = x] : x \in {"OFFICIAL", "SUPERUSER", Undef}}

\* The headers of the administrator and of the official.
RoleValueHeaders == {TokenOf(4), TokenOf(3)}

\* Roles of a user in the store, and of one that is not, are changed.
NextRoleValues ==
  \/ /\ Quiet
     /\ UpdateUserRoleRoute(RoleValueHeaders, LookupTargets, RoleValueBodies)
  \/ Leave

SpecRoleValues == Init /\ [][NextRoleValues]_vars

\* A body of PUT /api/issues/:id that changes the status.
ResolveBodies == {[EmptyBody EXCEPT !.status = "RESOLVED"]}

\* The headers of the reporter and of the citizen who is not the reporter.
CitizenHeaders == ReporterHeaders \cup CommenterHeaders

\* Issues are reported by one citizen; both citizens try to change the status,
\* upvote and comment, one request at a time.
NextBoundary ==
  \/ /\ Quiet
     /\ CreateIssueRoute(ReporterHeaders, CreateBodies, {TRUE})
        \/ UpdateIssueRoute(CitizenHeaders, ResolveBodies, {TRUE})
        \/ UpvoteIssueRoute(CitizenHeaders)
        \/ AddCommentRoute(CitizenHeaders, CommentBodies)
     /\ BagCardinality(req') <= 1
  \/ Leave

SpecBoundary == Init /\ [][NextBoundary]_vars

\* Bodies of POST /api/issues/:id/comments: a content, an empty content.
CommentCaseBodies ==
  {[EmptyBody EXCEPT !.content = "c"], [EmptyBody EXCEPT !.content = ""]}

\* Issues are reported and read, and comments with and without content are sent,
\* before and after the issue they name exists.
NextComment ==
  \/ /\ Quiet
     /\ CreateIssueRoute(ReporterHeaders, CreateBodies, {TRUE})
        \/ AddCommentRoute(CitizenHeaders, CommentCaseBodies)
        \/ GetCommentsRoute
  \/ Leave

SpecComment == Init /\ [][NextComment]_vars

\* The comments of the thread an issue already has: written in turn by the
\* other citizen and by the reporter.
ThreadAuthor(c) == IF c % 2 = 1 THEN 2 ELSE 1

\* The service some time after its start: citizen 1 has reported issue 1, and
\* ThreadLen comments stand under it.
InitThread ==
  /\ users = InitialUsers
  /\ issues = (1 :> NewIssueRow(CHOOSE b \in CreateBodies : TRUE, 1))
  /\ comments = [c \in 1..ThreadLen |->
                   [issueId |-> 1, authorId |-> ThreadAuthor(c), content |-> "c"]]
  /\ nextIssue = 2
  /\ nextComment = ThreadLen + 1
  /\ req = EmptyBag
  /\ upvoteOk = [i \in IssueIds |-> [u \in UserIds |-> 0]]
  /\ foreignKeys \in BOOLEAN
  /\ currentIssue = NoCurrentIssue
  /\ loading = FALSE
  /\ notifications = <<>>
  /\ unreadCount = 0
  /\ pager = NoPager

\* The headers of the reporter, who wrote every second comment of the thread,
\* of the official and of the administrator.
ThreadHeaders == {TokenOf(1), TokenOf(3), TokenOf(4)}

\* The deletion of one comment with headers H, from the button of a rendered
\* comment and from the provider.
DeleteCommentRoute(H) ==
  \/ \E h \in H, c \in 1..ThreadLen : HandleDelete(h, c)
  \/ \E h \in H, i \in IssueIds, c \in 1..ThreadLen : DeleteComment(h, i, c)
  \/ \E q \in InFlight : DeleteCommentFind(q)
  \/ \E q \in InFlight : DeleteCommentRow(q)
  \/ \E q \in InFlight : DeleteCommentSettled(q)

\* The issue is loaded in the browser and comments of its thread are deleted by
\* every kind of user.
NextThread ==
  \/ /\ Quiet
     /\ \/ \E i \in IssueIds : FetchIssueById(i)
        \/ DeleteCommentRoute(ThreadHeaders)
     /\ BagCardinality(req') <= 2
  \/ Leave

SpecThread == InitThread /\ [][NextThread]_vars

\* The issues the store holds when lists are asked for: all RESOLVED but the
\* seventh, on roads and on water in turn.
SeedIssue(i) ==
  [title |-> "t", description |-> "d", location |-> "l",
   category |-> IF i % 2 = 1 THEN "ROADS" ELSE "WATER",
   status |-> IF i = 7 THEN "REPORTED" ELSE "RESOLVED",
   upvotes |-> 0, reporterId |-> 1]

\* The service some time after its start: citizen 1 has reported up to ListLen
\* issues, one after the other, and they have been worked on.
InitList ==
  /\ users = InitialUsers
  /\ \E n \in 0..ListLen :
       /\ issues = [i \in 1..n |-> SeedIssue(i)]
       /\ nextIssue = n + 1
  /\ comments = <<>>
  /\ nextComment = 1
  /\ req = EmptyBag
  /\ upvoteOk = [i \in IssueIds |-> [u \in UserIds |-> 0]]
  /\ foreignKeys \in BOOLEAN
  /\ currentIssue = NoCurrentIssue
  /\ loading = FALSE
  /\ notifications = <<>>
  /\ unreadCount = 0
  /\ pager = NoPager

\* The filters of the list requests: none, an empty one, and statuses and a
\* category that rows carry.
ListFilters ==
  {[NoQuery EXCEPT !.status = s, !.category = c] :
     s \in {Undef, "", "RESOLVED", "REPORTED"}, c \in {Undef, "WATER"}}

\* Query strings with page >= 1 and limit >= 1, or without them.
ListQueries ==
  {[f EXCEPT !.page = p, !.limit = l] :
     f \in ListFilters, p \in {<<>>, <<1>>, <<2>>, <<3>>, <<4>>},
     l \in {<<>>, <<1>>, <<5>>}}

\* GET /api/issues with query strings Q.
GetAllIssuesRoute(Q) ==
  \/ \E query \in Q : ReqGetAllIssues(query)
  \/ \E q \in InFlight : GetAllIssuesFindMany(q)
  \/ \E q \in InFlight : GetAllIssuesCount(q)

\* The list requests in the bag b of requests.
ListRequests(b) == {q \in BagToSet(b) : q.op = "getAllIssues"}

\* Pages of the issue list are asked for while the administrator deletes the
\* first issue. List requests write nothing, so one of them in flight at a time
\* shows every outcome.
NextList ==
  \/ /\ Quiet
     /\ \/ GetAllIssuesRoute(ListQueries)
        \/ DeleteIssueRoute({TokenOf(4)})
     /\ BagCardinality(req') <= 2
     /\ \A q \in ListRequests(req') : ListRequests(req') = {q} /\ CopiesIn(q, req') = 1
  \/ Leave

SpecList == InitList /\ [][NextList]_vars

\* Query strings whose limit is zero, negative or positive.
ClampQueries ==
  {[NoQuery EXCEPT !.page = p, !.limit = l] :
     p \in {<<>>, <<1>>, <<2>>}, l \in {<<0>>, <<-1>>, <<-2>>, <<3>>}}

\* Lists are asked for with any limit, by a client of the API and by a page of
\* the application, one request at a time.
NextClamp ==
  \/ /\ Quiet
     /\ \/ GetAllIssuesRoute(ClampQueries)
        \/ \E url \in ClampQueries : ListFromUrl(url)
     /\ BagCardinality(req') <= 1
  \/ Leave

SpecClamp == InitList /\ [][NextClamp]_vars

\* The lists the reading clients ask for.
ReadQueries == {NoQuery, [NoQuery EXCEPT !.status = "REPORTED", !.limit = <<1>>]}

\* Issues are reported and commented while they, their comments and their list
\* are read.
NextRead ==
  \/ /\ Quiet
     /\ \/ CreateIssueRoute(ReporterHeaders, CreateBodies, {TRUE})
        \/ AddCommentRoute(CommenterHeaders, CommentBodies)
        \/ GetIssueByIdRoute
        \/ GetCommentsRoute
        \/ GetAllIssuesRoute(ReadQueries)
  \/ Leave

SpecRead == Init /\ [][NextRead]_vars

\* Issues are reported, commented and deleted by their reporter, and the
\* database may fail under the deletion of the issue row.
NextAtomic ==
  \/ /\ Quiet
     /\ \/ CreateIssueRoute(ReporterHeaders, CreateBodies, {TRUE})
        \/ AddCommentRoute(CommenterHeaders, CommentBodies)
        \/ DeleteIssueRoute(ReporterHeaders)
        \/ \E q \in InFlight : DeleteIssueRowFails(q)
  \/ Leave

SpecAtomic == Init /\ [][NextAtomic]_vars

\* The official resolves the issue and the other citizen upvotes it while its
\* reporter deletes it: a writer and the deletion, two requests in flight.
NextGone ==
  \/ /\ Quiet
     /\ \/ CreateIssueRoute(ReporterHeaders, CreateBodies, {TRUE})
        \/ UpdateIssueRoute({TokenOf(3)}, ResolveBodies, {TRUE})
        \/ UpvoteIssueRoute(CommenterHeaders)
        \/ DeleteIssueRoute(ReporterHeaders)
     /\ BagCardinality(req') <= 2
  \/ Leave

SpecGone == Init /\ [][NextGone]_vars

\* The IssueProvider of one browser: its calls of fetchIssues, createIssue and
\* updateIssue, the server's work on each, and each call's settling.
LoadingHeaders == {TokenOf(1), TokenOf(3)}

NextLoading ==
  \/ /\ Quiet
     /\ \/ FetchIssues
        \/ \E h \in LoadingHeaders, b \in CreateCaseBodies : CreateIssue(h, b)
        \/ \E h \in LoadingHeaders, i \in IssueIds, b \in ResolveBodies :
             UpdateIssue(h, i, b)
        \/ \E q \in InFlight : CreateIssueInsert(q)
        \/ \E q \in InFlight, ok \in BOOLEAN : CreateIssueMailReporter(q, ok)
        \/ \E q \in InFlight, ok \in BOOLEAN : CreateIssueMailAdmins(q, ok)
        \/ \E q \in InFlight : UpdateIssueFind(q)
        \/ \E q \in InFlight : UpdateIssueWrite(q)
        \/ \E q \in InFlight, ok \in BOOLEAN : UpdateIssueMail(q, ok)
        \/ \E q \in InFlight : GetAllIssuesFindMany(q)
        \/ \E q \in InFlight : GetAllIssuesCount(q)
  \/ \E q \in InFlight : FetchIssuesSettled(q)
  \/ \E q \in InFlight : CreateIssueSettled(q)
  \/ \E q \in InFlight : UpdateIssueSettled(q)

SpecLoading == Init /\ [][NextLoading]_vars

\* The NotificationProvider of one signed-in user: its calls one after the
\* other, each one successful.
NextNotifications ==
  \/ \E list \in NotificationLists : FetchNotifications(list)
  \/ \E n \in NotificationIds : MarkAsRead(n)
  \/ MarkAllAsRead
  \/ \E n \in NotificationIds : DeleteNotification(n)
  \/ ClearAllNotifications

SpecNotifications == Init /\ [][NextNotifications]_vars

\* A page that paginates: any number of pages, any current page among them,
\* any number of page buttons from 3 on.
InitPager ==
  /\ users = InitialUsers
  /\ issues = <<>>
  /\ comments = <<>>
  /\ nextIssue = 1
  /\ nextComment = 1
  /\ req = EmptyBag
  /\ upvoteOk = [i \in IssueIds |-> [u \in UserIds |-> 0]]
  /\ foreignKeys \in BOOLEAN
  /\ currentIssue = NoCurrentIssue
  /\ loading = FALSE
  /\ notifications = <<>>
  /\ unreadCount = 0
  /\ \E totalPages \in 1..MaxPages, currentPage \in 1..MaxPages,
        maxPageButtons \in 3..MaxPageButtons :
       /\ currentPage <= totalPages
       /\ pager = [currentPage |-> currentPage, totalPages |-> totalPages,
                   maxPageButtons |-> maxPageButtons, pageNumbers |-> <<>>]

NextPager ==
  \/ Pagination
  \/ PreviousPage
  \/ \E index \in 1..(MaxPageButtons + 2) : PageLink(index)
  \/ NextPage

SpecPager == InitPager /\ [][NextPager]_vars

\* ---------------------------------------------------------------- properties

\* In this step request q moves on and becomes q2.
Moves(q, q2) == q # q2 /\ req' = Replace(q, q2)

\* In this step request q2 arrives.
Arrives(q2) == req' = req (+) SetToBag({q2})

\* The sum of f over the set S of its arguments.
RECURSIVE SumOver(_, _)
SumOver(f, S) ==
  IF S = {} THEN 0
  ELSE LET x == CHOOSE y \in S : TRUE IN f[x] + SumOver(f, S \ {x})

\* The actor of q is the reporter of the issue q names, an OFFICIAL or an ADMIN.
UpdateAuthorized(q) ==
  \/ q.user.id = issues[q.id].reporterId
  \/ users[q.user.id].role \in {"OFFICIAL", "ADMIN"}

\* C1: updateIssue on an existing issue modifies it, and attempts a status-change
\* notification, only when the actor is the issue's reporter, an OFFICIAL or an
\* ADMIN; for every other authenticated actor the existence check is followed by
\* the answer 403, and the request changes no issue and attempts no notification.
C1_UpdateOnlyByReporterOfficialAdmin ==
  [][\A q \in BagToSet(req), q2 \in BagToSet(req') :
       (Moves(q, q2) /\ q.op = "updateIssue") =>
         /\ (q.pc = "upd_find" /\ q.id \in DOMAIN issues /\ ~UpdateAuthorized(q))
              => /\ q2.pc = "done" /\ q2.status = 403
                 /\ q2.effects = {} /\ q2.mails = <<>>
                 /\ issues' = issues
         /\ (issues' # issues \/ q2.mails # q.mails)
              => (q.id \in DOMAIN issues /\ UpdateAuthorized(q))
         /\ q2.status = 403 => (issues' = issues /\ q2.effects = {} /\ q2.mails = <<>>)
    ]_vars

\* A citizen who is not the reporter has been answered 403 on an existing issue.
C1_Witness ==
  \E q \in InFlight :
    /\ q.op = "updateIssue" /\ q.status = 403
    /\ q.id \in DOMAIN issues
    /\ q.user.id # issues[q.id].reporterId /\ users[q.user.id].role = "CITIZEN"

\* The actor of q is the reporter of the issue q names, or an ADMIN.
DeleteAuthorized(q) ==
  \/ q.user.id = issues[q.id].reporterId
  \/ users[q.user.id].role = "ADMIN"

\* C2: deleteIssue on an existing issue by an actor who is neither the reporter
\* nor an ADMIN (an OFFICIAL included) is answered 403, and the request removes
\* and changes no issue and no comment.
C2_DeleteForbiddenLeavesAll ==
  [][\A q \in BagToSet(req), q2 \in BagToSet(req') :
       (Moves(q, q2) /\ q.op = "deleteIssue") =>
         /\ (q.pc = "del_find" /\ q.id \in DOMAIN issues /\ ~DeleteAuthorized(q))
              => /\ q2.pc = "done" /\ q2.status = 403 /\ q2.effects = {}
                 /\ issues' = issues /\ comments' = comments
         /\ q2.status = 403 => (issues' = issues /\ comments' = comments /\ q2.effects = {})
    ]_vars

\* The official, who is not the reporter, has been answered 403 on an issue that
\* has a comment.
C2_Witness ==
  \E q \in InFlight :
    /\ q.op = "deleteIssue" /\ q.status = 403
    /\ users[q.user.id].role = "OFFICIAL"
    /\ q.id \in DOMAIN issues
    /\ \E c \in DOMAIN comments : comments[c].issueId = q.id

\* The header names a verified, unexpired token of a user in the store.
GoodHeader(h) ==
  h.kind = "bearer" /\ h.sigOk /\ ~h.expired /\ h.sub \in DOMAIN users

\* The routes behind the authentication middleware.
AuthenticatedOps ==
  {"createIssue", "updateIssue", "deleteIssue", "upvoteIssue", "addComment",
   "getUserById", "updateUser", "getUserIssues", "updateUserRole"}

\* C3: a user's role changes only in the write of a role-change request whose
\* actor was authenticated with role ADMIN; a role-change request of a CITIZEN or
\* an OFFICIAL is answered 403 on arrival and changes no user.
C3_RoleChangedOnlyByAdmin ==
  [][/\ \A u \in DOMAIN users :
          users'[u].role # users[u].role =>
            \E q \in BagToSet(req), q2 \in BagToSet(req') :
              /\ Moves(q, q2) /\ q.op = "updateUserRole" /\ q.id = u
              /\ q.user.role = "ADMIN" /\ q2.status = 200
     /\ \A q2 \in BagToSet(req') :
          (/\ Arrives(q2) /\ q2.op = "updateUserRole" /\ GoodHeader(q2.hdr)
           /\ users[q2.hdr.sub].role \in {"CITIZEN", "OFFICIAL"})
            => (q2.pc = "done" /\ q2.status = 403 /\ users' = users)
     /\ \A q \in BagToSet(req) :
          (q.op = "updateUserRole" /\ q.user.role # "ADMIN")
            => (q.pc = "done" /\ q.effects = {})
    ]_vars

\* A role has been changed, and the official's role-change request has been
\* answered 403.
C3_Witness ==
  /\ users[1].role = "ADMIN"
  /\ \E q \in InFlight :
       q.op = "updateUserRole" /\ q.status = 403 /\ q.user.role = "OFFICIAL"

\* C4: a request on an authenticated route gets past the middleware only with a
\* header "Bearer <token>" whose token verifies (signature and expiry) and whose
\* subject is a user in the store, and then carries exactly that user's id,
\* email, name and role; with any other header it is answered 401 on arrival,
\* its handler never runs and the store is unchanged.
C4_AuthenticatedOrRejected ==
  /\ [][\A q2 \in BagToSet(req') :
          (Arrives(q2) /\ q2.op \in AuthenticatedOps) =>
            IF GoodHeader(q2.hdr)
            THEN /\ q2.status # 401
                 /\ q2.user = [id |-> q2.hdr.sub, email |-> users[q2.hdr.sub].email,
                               name |-> users[q2.hdr.sub].name,
                               role |-> users[q2.hdr.sub].role]
            ELSE /\ q2.pc = "done" /\ q2.status = 401 /\ q2.effects = {}
                 /\ q2.user = NoUser
                 /\ UNCHANGED store
       ]_vars
  /\ [](\A q \in InFlight :
          (q.op \in AuthenticatedOps /\ (q.pc # "done" \/ q.effects # {} \/ q.status # 401))
            => (GoodHeader(q.hdr) /\ q.user.id = q.hdr.sub))

\* A token with a good signature that has expired has been answered 401, and a
\* request of the administrator is past the middleware.
C4_Witness ==
  /\ \E q \in InFlight :
       q.status = 401 /\ q.hdr.kind = "bearer" /\ q.hdr.sigOk /\ q.hdr.expired
  /\ \E q \in InFlight : q.pc # "done" /\ q.user.id = 4

C6_CommentsThenIssue ==
  /\ [][/\ \A i \in DOMAIN issues \ DOMAIN issues' :
             \E q \in BagToSet(req), q2 \in BagToSet(req') :
               /\ Moves(q, q2) /\ q.op = "deleteIssue" /\ q.id = i
               /\ "comments_delete" \in q.effects
               /\ q2.status = 200
        /\ \A q \in BagToSet(req), q2 \in BagToSet(req') :
             (Moves(q, q2) /\ "comments_delete" \in q2.effects \ q.effects)
               => /\ "issue_delete" \notin q2.effects
                  /\ \A c \in DOMAIN comments' : comments'[c].issueId # q.id
        /\ \A i \in IssueIds :
             (i < nextIssue /\ i \notin DOMAIN issues) => i \notin DOMAIN issues'
        /\ \A q \in BagToSet(req), q2 \in BagToSet(req') :
             (/\ Moves(q, q2) /\ q.pc \in {"get_find", "gc_find"}
              /\ q.id < nextIssue /\ q.id \notin DOMAIN issues)
               => q2.status = 404
       ]_vars
  /\ [](\A q \in InFlight :
          (q.op = "deleteIssue" /\ q.status = 200) => q.id \notin DOMAIN issues)

\* A deleteIssue request has been answered 200 for an issue that had a comment,
\* and no comment is left.
C6_Witness ==
  /\ \E q \in InFlight : q.op = "deleteIssue" /\ q.status = 200
  /\ nextComment > 1
  /\ comments = <<>>

\* C7 (as claimed): updateIssue, deleteIssue, getUserById, updateUser and
\* getUserIssues answer an authenticated request that names an id which does not
\* exist with 404, whatever the actor's role, and never with 403.
C7_MissingIsNotFound ==
  [][/\ \A q2 \in BagToSet(req') :
          (/\ Arrives(q2)
           /\ q2.op \in {"getUserById", "updateUser", "getUserIssues"}
           /\ GoodHeader(q2.hdr) /\ Missing(q2.id, users))
            => (q2.pc = "done" => q2.status = 404)
     /\ \A q \in BagToSet(req), q2 \in BagToSet(req') :
          (/\ Moves(q, q2)
           /\ \/ q.pc \in {"upd_find", "del_find"} /\ Missing(q.id, issues)
              \/ q.pc \in {"gu_find", "uu_find", "gi_find"} /\ Missing(q.id, users))
            => q2.status = 404
    ]_vars

\* C8: the status of every stored issue is one of REPORTED, UNDER_REVIEW,
\* IN_PROGRESS, RESOLVED, CLOSED; an updateIssue request that carries any other
\* status changes no issue in any of its steps and is not answered 200.
C8_StatusInEnum ==
  /\ [](\A i \in DOMAIN issues : issues[i].status \in Statuses)
  /\ [][\A q \in BagToSet(req), q2 \in BagToSet(req') :
          (/\ Moves(q, q2) /\ q.op = "updateIssue"
           /\ q.body.status \notin Statuses \cup {Undef})
            => (issues' = issues /\ q2.status # 200)
       ]_vars

\* The write of an authorized update carrying a status outside the enumeration
\* has been refused, and the issue still has the status it was created with.
C8_Witness ==
  \E q \in InFlight :
    /\ q.op = "updateIssue" /\ q.body.status = "BOGUS"
    /\ q.pc = "done" /\ q.status = 500
    /\ q.id \in DOMAIN issues /\ issues[q.id].status = "REPORTED"

\* C9: the upvote count of an issue is the number of upvote requests on it that
\* were answered 200, in every interleaving; each request of an actor who has
\* upvoted before counts again.
C9_UpvotesCountRequests ==
  \A i \in DOMAIN issues :
    issues[i].upvotes = SumOver(upvoteOk[i], UserIds)

\* One actor has been answered 200 twice on the same issue.
C9_Witness ==
  \E i \in DOMAIN issues, u \in UserIds :
    upvoteOk[i][u] = 2 /\ issues[i].upvotes >= 2

\* C10: the upvote count of an issue is a natural number and never decreases
\* while the issue exists; only a step of an upvoteIssue request changes it, and
\* no step of updateIssue or addComment does.
C10_UpvotesMonotone ==
  /\ [](\A i \in DOMAIN issues : issues[i].upvotes \in Nat)
  /\ [][\A i \in DOMAIN issues \cap DOMAIN issues' :
          /\ issues'[i].upvotes >= issues[i].upvotes
          /\ issues'[i].upvotes # issues[i].upvotes =>
               \E q \in BagToSet(req), q2 \in BagToSet(req') :
                 Moves(q, q2) /\ q.op = "upvoteIssue" /\ q.id = i
       ]_vars

\* An issue that was upvoted has been updated and commented on, and keeps its
\* count.
C10_Witness ==
  \E i \in DOMAIN issues :
    /\ issues[i].upvotes >= 1 /\ issues[i].title = "t2"
    /\ \E c \in DOMAIN comments : comments[c].issueId = i
    /\ \E q \in InFlight : q.op = "updateIssue" /\ q.status = 200 /\ q.id = i

\* The fields of a create request are valid: title, description and location
\* are present and not empty, and the category is one of the eight.
ValidCreateFields(body) ==
  /\ body.title \notin {Undef, ""}
  /\ body.description \notin {Undef, ""}
  /\ body.location \notin {Undef, ""}
  /\ body.category \in Categories

\* C11: createIssue by an authenticated user of any role with valid fields
\* persists exactly one new issue, whose reporter is the actor, whose status is
\* REPORTED and whose category (with title, description and location) is the one
\* submitted, and is answered 201; with an empty title, description or location,
\* or a category outside the eight, it is answered 400 on arrival and creates no
\* issue.
C11_CreateIssueContract ==
  /\ [][/\ \A q2 \in BagToSet(req') :
             (Arrives(q2) /\ q2.op = "createIssue" /\ GoodHeader(q2.hdr)) =>
               /\ UNCHANGED store
               /\ IF ValidCreateFields(q2.body)
                  THEN q2.pc = "crt_create"
                  ELSE q2.pc = "done" /\ q2.status = 400 /\ q2.effects = {}
        /\ \A q \in BagToSet(req), q2 \in BagToSet(req') :
             (Moves(q, q2) /\ q.op = "createIssue") =>
               IF q.pc = "crt_create"
               THEN \E n \in IssueIds \ DOMAIN issues :
                      /\ DOMAIN issues' = DOMAIN issues \cup {n}
                      /\ \A i \in DOMAIN issues : issues'[i] = issues[i]
                      /\ issues'[n].reporterId = q.hdr.sub
                      /\ issues'[n].status = "REPORTED"
                      /\ issues'[n].category = q.body.category
                      /\ issues'[n].title = q.body.title
                      /\ issues'[n].description = q.body.description
                      /\ issues'[n].location = q.body.location
                      /\ issues'[n].upvotes = 0
                      /\ q2.id = n /\ "issue_create" \notin q.effects
               ELSE issues' = issues
       ]_vars
  /\ [](\A q \in InFlight :
          q.op = "createIssue" =>
            /\ q.pc \notin {"done", "idle"} => ValidCreateFields(q.body)
            /\ q.pc = "done" =>
                 /\ q.status \in {201, 400, 401}
                 /\ q.status = 201 <=>
                      (GoodHeader(q.hdr) /\ ValidCreateFields(q.body))
                 /\ q.status = 201 <=> "issue_create" \in q.effects)

\* The official has been answered 201 for an issue of category WATER, stored as
\* REPORTED with the official as its reporter.
C11_Witness ==
  \E q \in InFlight :
    /\ q.op = "createIssue" /\ q.status = 201 /\ users[q.hdr.sub].role = "OFFICIAL"
    /\ q.id \in DOMAIN issues
    /\ issues[q.id].category = "WATER" /\ issues[q.id].status = "REPORTED"
    /\ issues[q.id].reporterId = q.hdr.sub

\* C12: an authorized updateIssue attempts the status-change notification once
\* when the request provides a status that differs from the status its existence
\* check read, with that status as the old and the requested one as the new
\* status, and attempts none when no status is provided or it is the same; when
\* no other write came between the check and the update, a notification is
\* attempted exactly when the update changed the stored status.
C12_NotifyOnStatusChange ==
  /\ [][\A q \in BagToSet(req), q2 \in BagToSet(req') :
          (Moves(q, q2) /\ q.op = "updateIssue") =>
            /\ (q.pc = "upd_find" /\ q2.pc = "upd_write") =>
                 /\ q2.statusChanged <=>
                      (q.body.status # Undef /\ q.body.status # issues[q.id].status)
                 /\ q2.oldStatus = issues[q.id].status
            /\ (q.pc = "upd_write" /\ q2.status # 500) =>
                 /\ q2.pc = "upd_mail" <=> q.statusChanged
                 /\ issues[q.id].status = q.oldStatus =>
                      (q.statusChanged <=> issues'[q.id].status # issues[q.id].status)
            /\ IF q.pc = "upd_mail"
               THEN /\ q.mails = <<>> /\ Len(q2.mails) = 1
                    /\ q2.mails[1].kind = "status"
                    /\ q2.mails[1].old = q.oldStatus
                    /\ q2.mails[1].new = q.body.status
                    /\ q2.pc = "done"
               ELSE q2.mails = q.mails
       ]_vars
  /\ [](\A q \in InFlight :
          (q.op = "updateIssue" /\ q.pc = "done") =>
            Len(q.mails) = IF q.status = 200 /\ q.statusChanged THEN 1 ELSE 0)

\* The official's update to RESOLVED has been answered 200 after one notification
\* from REPORTED to RESOLVED.
C12_Witness ==
  \E q \in InFlight :
    /\ q.op = "updateIssue" /\ q.status = 200 /\ q.user.role = "OFFICIAL"
    /\ Len(q.mails) = 1 /\ q.mails[1].old = "REPORTED" /\ q.mails[1].new = "RESOLVED"
    /\ issues[q.id].status = "RESOLVED"

\* C13: a dispatch that fails changes nothing in the outcome of its request:
\* createIssue attempts the mail to the admins after the mail to the reporter
\* whether or not that one failed, and is answered 201 with the issue stored;
\* updateIssue is answered 200 with the update stored; each dispatch is attempted
\* once and no dispatch step touches the store.
C13_MailFailureIsSwallowed ==
  /\ [][\A q \in BagToSet(req), q2 \in BagToSet(req') :
          Moves(q, q2) =>
            /\ q.pc = "crt_mail1" =>
                 (q2.pc = "crt_mail2" /\ Len(q2.mails) = 1 /\ UNCHANGED store)
            /\ q.pc = "crt_mail2" =>
                 (q2.pc = "done" /\ q2.status = 201 /\ Len(q2.mails) = 2
                  /\ UNCHANGED store)
            /\ q.pc = "upd_mail" =>
                 (q2.pc = "done" /\ q2.status = 200 /\ Len(q2.mails) = 1
                  /\ UNCHANGED store)
       ]_vars
  /\ [](\A q \in InFlight :
          /\ (q.op = "createIssue" /\ "issue_create" \in q.effects /\ q.pc = "done") =>
               /\ q.status = 201
               /\ Len(q.mails) = 2
               /\ q.mails[1].kind = "created" /\ q.mails[2].kind = "admins"
               /\ q.id \in DOMAIN issues
          /\ (q.op = "updateIssue" /\ "issue_write" \in q.effects /\ q.pc = "done") =>
               /\ q.status = 200
               /\ Len(q.mails) <= 1)

\* createIssue has been answered 201 with the issue stored after both of its
\* dispatches failed, the second attempted after the first.
C13_Witness ==
  \E q \in InFlight :
    /\ q.op = "createIssue" /\ q.status = 201 /\ q.id \in DOMAIN issues
    /\ Len(q.mails) = 2 /\ ~q.mails[1].ok /\ ~q.mails[2].ok

\* C14: no transition graph is enforced: whatever the status s of an existing
\* issue, the update of a reporter, OFFICIAL or ADMIN to any status t of the five
\* passes the handler's checks and its write stores t, backward moves included.
C14_AnyStatusToAnyStatus ==
  [][\A q \in BagToSet(req), q2 \in BagToSet(req') :
       (/\ Moves(q, q2) /\ q.op = "updateIssue"
        /\ q.body.status \in Statuses /\ q.id \in DOMAIN issues) =>
         /\ (q.pc = "upd_find" /\ UpdateAuthorized(q)) => q2.pc = "upd_write"
         /\ q.pc = "upd_write" =>
              /\ issues'[q.id].status = q.body.status
              /\ q2.status # 500
              /\ "issue_write" \in q2.effects
    ]_vars

\* The official has moved an issue from RESOLVED back to REPORTED with one
\* update, answered 200.
C14_Witness ==
  \E q \in InFlight :
    /\ q.op = "updateIssue" /\ q.status = 200 /\ q.user.role = "OFFICIAL"
    /\ q.existing.status = "RESOLVED" /\ q.body.status = "REPORTED"
    /\ issues[q.id].status = "REPORTED"

\* C15: the reporter of an issue never changes: no step of updateIssue,
\* upvoteIssue or addComment changes it; the write of updateIssue changes only the
\* addressed issue, and of it only title, description, status and category, each
\* to the value the request gives and not at all when the request omits it;
\* upvoteIssue changes only the counter and addComment changes no issue.
C15_ReporterImmutable ==
  [][/\ \A i \in DOMAIN issues \cap DOMAIN issues' :
          /\ issues'[i].reporterId = issues[i].reporterId
          /\ issues'[i].location = issues[i].location
     /\ \A q \in BagToSet(req), q2 \in BagToSet(req') :
          Moves(q, q2) =>
            /\ q.op = "updateIssue" =>
                 \A i \in DOMAIN issues :
                   issues'[i] # issues[i] =>
                     /\ i = q.id /\ q.pc = "upd_write"
                     /\ issues'[i].upvotes = issues[i].upvotes
                     /\ issues'[i].title =
                          IF q.body.title = Undef THEN issues[i].title ELSE q.body.title
                     /\ issues'[i].description =
                          IF q.body.description = Undef THEN issues[i].description
                          ELSE q.body.description
                     /\ issues'[i].status =
                          IF q.body.status = Undef THEN issues[i].status ELSE q.body.status
                     /\ issues'[i].category =
                          IF q.body.category = Undef THEN issues[i].category
                          ELSE q.body.category
            /\ q.op = "upvoteIssue" =>
                 \A i \in DOMAIN issues :
                   issues'[i] = [issues[i] EXCEPT !.upvotes = issues'[i].upvotes]
            /\ q.op = "addComment" => issues' = issues
    ]_vars

\* The reporter's update that named user 2 as reporter has been answered 200: the
\* title is the new one, and the reporter and the other fields are as created.
C15_Witness ==
  \E q \in InFlight :
    /\ q.op = "updateIssue" /\ q.status = 200 /\ q.body.reporterId = 2
    /\ issues[q.id].title = "t2" /\ issues[q.id].reporterId = 1
    /\ issues[q.id].description = "d" /\ issues[q.id].category = "ROADS"

\* C16: updateUser goes on to its write only when the actor is the target user
\* or an ADMIN, and is otherwise answered 403 on arrival with no user changed;
\* its write changes only the target, and of the target only the name and the
\* profile picture, each to the value given and not at all when omitted: the
\* role, the email and the credential stay, whatever the body carries.
C16_ProfileUpdateFrame ==
  /\ [][/\ \A q2 \in BagToSet(req') :
             (Arrives(q2) /\ q2.op = "updateUser" /\ GoodHeader(q2.hdr)) =>
               /\ users' = users
               /\ IF q2.hdr.sub = q2.id \/ users[q2.hdr.sub].role = "ADMIN"
                  THEN q2.pc = "uu_find"
                  ELSE q2.pc = "done" /\ q2.status = 403 /\ q2.effects = {}
        /\ \A q \in BagToSet(req), q2 \in BagToSet(req') :
             (Moves(q, q2) /\ q.op = "updateUser") =>
               \A u \in DOMAIN users :
                 users'[u] # users[u] =>
                   /\ u = q.id /\ q.pc = "uu_write"
                   /\ q.hdr.sub = q.id \/ users[q.hdr.sub].role = "ADMIN"
                   /\ users'[u].role = users[u].role
                   /\ users'[u].email = users[u].email
                   /\ users'[u].password = users[u].password
                   /\ users'[u].name =
                        IF q.body.name = Undef THEN users[u].name ELSE q.body.name
                   /\ users'[u].profilePicture =
                        IF q.body.profilePicture = Undef THEN users[u].profilePicture
                        ELSE q.body.profilePicture
       ]_vars
  /\ [](\A q \in InFlight :
          (q.op = "updateUser" /\ q.status = 200) =>
            (q.hdr.sub = q.id \/ users[q.hdr.sub].role = "ADMIN"))

\* A citizen's update of their own profile, with role ADMIN in its body, has been
\* answered 200: the name is the new one and the citizen is still a CITIZEN.
C16_Witness ==
  \E q \in InFlight :
    /\ q.op = "updateUser" /\ q.status = 200 /\ q.hdr.sub = 1 /\ q.id = 1
    /\ q.body.role = "ADMIN"
    /\ users[1].name = "n2" /\ users[1].role = "CITIZEN"

\* C17: the role of every user is CITIZEN, OFFICIAL or ADMIN in every state; a
\* role-change request of an ADMIN with any other value, or none, is answered 400
\* on arrival, whether or not the target user exists, and no role-change request
\* with such a value, whoever sends it, takes a further step or changes a user.
C17_RoleInEnum ==
  /\ [](\A u \in DOMAIN users : users[u].role \in {"CITIZEN", "OFFICIAL", "ADMIN"})
  /\ [][/\ \A q2 \in BagToSet(req') :
             (/\ Arrives(q2) /\ q2.op = "updateUserRole"
              /\ q2.body.role \notin {"CITIZEN", "OFFICIAL", "ADMIN"}) =>
               /\ users' = users
               /\ q2.pc = "done" /\ q2.effects = {}
               /\ (GoodHeader(q2.hdr) /\ users[q2.hdr.sub].role = "ADMIN")
                    => q2.status = 400
        /\ \A q \in BagToSet(req), q2 \in BagToSet(req') :
             (/\ Moves(q, q2) /\ q.op = "updateUserRole"
              /\ q.body.role \notin {"CITIZEN", "OFFICIAL", "ADMIN"}) => FALSE
       ]_vars

\* The administrator's request to give a user that does not exist a value that is
\* no role has been answered 400.
C17_Witness ==
  \E q \in InFlight :
    /\ q.op = "updateUserRole" /\ q.status = 400 /\ q.user.role = "ADMIN"
    /\ q.body.role = "SUPERUSER" /\ q.id \notin DOMAIN users

\* The actor of q is a CITIZEN and not the reporter of the existing issue q names.
OtherCitizen(q) ==
  /\ q.id \in DOMAIN issues
  /\ users[q.user.id].role = "CITIZEN"
  /\ q.user.id # issues[q.id].reporterId

\* C18 (as claimed): a comment that was created is answered 200.
C18_CommentAnswered200 ==
  \A q \in InFlight :
    (q.op = "addComment" /\ q.pc = "done" /\ "comment_create" \in q.effects)
      => q.status = 200

\* C18 (amended): a CITIZEN who is not the reporter of an existing issue is
\* answered 403 when trying to change its status; every authenticated user,
\* that citizen included, passes the checks of addComment and upvoteIssue on an
\* existing issue, and is answered 201 for the comment created and 200 for the
\* upvote.
C18_PublicWriteActions ==
  /\ [][\A q \in BagToSet(req), q2 \in BagToSet(req') :
          (Moves(q, q2) /\ q.id \in DOMAIN issues) =>
            /\ (q.pc = "upd_find" /\ OtherCitizen(q)) =>
                 (q2.pc = "done" /\ q2.status = 403 /\ issues' = issues)
            /\ q.pc = "cmt_find" => q2.pc = "cmt_create"
            /\ q.pc = "cmt_create" =>
                 /\ q2.pc = "done" /\ q2.status = 201
                 /\ \E c \in DOMAIN comments' \ DOMAIN comments :
                      comments'[c].authorId = q.user.id /\ comments'[c].issueId = q.id
            /\ q.pc = "upv_find" => q2.pc = "upv_write"
            /\ q.pc = "upv_write" =>
                 /\ q2.pc = "done" /\ q2.status = 200
                 /\ issues'[q.id].upvotes = issues[q.id].upvotes + 1
       ]_vars
  /\ [](\A q \in InFlight :
          /\ (q.op = "addComment" /\ "comment_create" \in q.effects) => q.status = 201
          /\ (q.op = "upvoteIssue" /\ "issue_upvote" \in q.effects) => q.status = 200)

\* The citizen who is not the reporter has upvoted an issue and has been answered
\* 201 for a comment on it.
C18_Witness ==
  \E q \in InFlight :
    /\ q.op = "addComment" /\ q.status = 201 /\ OtherCitizen(q)
    /\ upvoteOk[q.id][q.user.id] >= 1
    /\ \E c \in DOMAIN comments :
         comments[c].authorId = q.user.id /\ comments[c].issueId = q.id

\* C19 (as claimed): addComment checks the issue first: a comment request on an
\* id that names no issue is answered 404 whatever its body, an empty content
\* included, and creates no comment; on an existing issue a content that is not
\* empty creates exactly one comment, of the actor on that issue, and an empty
\* content creates none.
C19_ExistenceBeforeContent ==
  [][/\ \A q2 \in BagToSet(req') :
          (Arrives(q2) /\ q2.op = "addComment" /\ GoodHeader(q2.hdr)) =>
            /\ comments' = comments
            /\ (Missing(q2.id, issues) /\ q2.pc = "done") => q2.status = 404
            /\ (~Missing(q2.id, issues) /\ q2.body.content \in {Undef, ""}) =>
                 (q2.pc = "done" /\ q2.status = 400)
     /\ \A q \in BagToSet(req), q2 \in BagToSet(req') :
          (Moves(q, q2) /\ q.op = "addComment") =>
            /\ (q.pc = "cmt_find" /\ Missing(q.id, issues)) =>
                 (q2.status = 404 /\ comments' = comments)
            /\ comments' # comments =>
                 /\ q.body.content \notin {Undef, ""}
                 /\ \E c \in CommentIds \ DOMAIN comments :
                      /\ DOMAIN comments' = DOMAIN comments \cup {c}
                      /\ \A d \in DOMAIN comments : comments'[d] = comments[d]
                      /\ comments'[c].authorId = q.hdr.sub
                      /\ comments'[c].issueId = q.id
    ]_vars


\* The actor of request q wrote comment c or is an ADMIN.
AuthorOrAdmin(q, c) ==
  /\ q.hdr.sub \in DOMAIN users
  /\ c \in DOMAIN comments
  /\ comments[c].authorId = q.hdr.sub \/ users[q.hdr.sub].role = "ADMIN"

Asked(query) ==
  {i \in DOMAIN issues :
     /\ query.status \in {Undef, ""} \/ issues[i].status = query.status
     /\ query.category \in {Undef, ""} \/ issues[i].category = query.category}

\* The number of items page `page` of `total` items holds at `limit` a page.
PageSize(total, page, limit) ==
  IF total - (page - 1) * limit <= 0 THEN 0
  ELSE IF total - (page - 1) * limit >= limit THEN limit
  ELSE total - (page - 1) * limit

\* C21: for page >= 1 and limit >= 1, getAllIssues returns the items at
\* positions (page-1)*limit .. (page-1)*limit+limit-1 of the newest-first list of
\* the issues matching the filter (the k-th item returned matches the filter and
\* has exactly (page-1)*limit+k-1 matching issues newer than it), as the store
\* holds them when findMany runs; the answer is 200 with results the number of
\* items returned and pagination = {total, page, limit, pages = ceil(total/limit)},
\* total counting the issues that match the same filter when count runs; a page
\* beyond the last is an empty list with that metadata, not an error.
C21_PageOfNewestFirst ==
  [][\A q \in BagToSet(req), q2 \in BagToSet(req') :
       (/\ Moves(q, q2)
        /\ q.op = "getAllIssues"
        /\ QueryPage(q.query) >= 1
        /\ QueryLimit(q.query) >= 1) =>
         LET page == QueryPage(q.query)
             limit == QueryLimit(q.query)
             total == Cardinality(Asked(q.query))
         IN /\ issues' = issues
            /\ q.pc = "list_find" =>
                 /\ q2.pc = "list_count"
                 /\ Len(q2.list) = PageSize(total, page, limit)
                 /\ \A k \in 1..Len(q2.list) :
                      /\ q2.list[k] \in Asked(q.query)
                      /\ Cardinality({i \in Asked(q.query) : i > q2.list[k]})
                           = (page - 1) * limit + k - 1
            /\ q.pc = "list_count" =>
                 /\ q2.pc = "done"
                 /\ q2.status = 200
                 /\ q2.list = q.list
                 /\ q2.pagination.total = total
                 /\ q2.pagination.page = page
                 /\ q2.pagination.limit = limit
                 /\ q2.pagination.pages.fin
                 /\ q2.pagination.pages.val * limit >= total
                 /\ (q2.pagination.pages.val - 1) * limit < total
    ]_vars

\* Scenario D: twelve RESOLVED issues, GET /api/issues?status=RESOLVED&page=2&limit=5
\* has been answered 200 with five items and {total: 12, page: 2, limit: 5,
\* pages: 3}.
C21_Witness ==
  /\ Cardinality({i \in DOMAIN issues : issues[i].status = "RESOLVED"}) = 12
  /\ \E q \in InFlight :
       /\ q.op = "getAllIssues"
       /\ q.pc = "done"
       /\ q.status = 200
       /\ q.query = [NoQuery EXCEPT !.status = "RESOLVED", !.page = <<2>>, !.limit = <<5>>]
       /\ Len(q.list) = 5
       /\ q.pagination = [total |-> 12, page |-> 2, limit |-> 5, pages |-> Num(3)]

\* The elements of the sequence s.
Range(s) == {s[k] : k \in 1..Len(s)}

\* C22: when a list request with limit >= 1 has been answered, its
\* pagination.total is the number of stored issues matching its filter, and the
\* pages 1..pages asked of the same store with the same filter and limit hold
\* total items between them, every matching issue on exactly one page.
C22_PagesPartitionTheList ==
  \A q \in InFlight :
    (/\ q.op = "getAllIssues"
     /\ q.pc = "done"
     /\ q.status = 200
     /\ QueryLimit(q.query) >= 1) =>
      LET n == q.pagination.pages.val
          pages == [p \in 1..n |-> FindManyIssues([q.query EXCEPT !.page = <<p>>])]
      IN /\ q.pagination.total = Cardinality(Asked(q.query))
         /\ q.pagination.pages.fin
         /\ SumOver([p \in 1..n |-> Len(pages[p])], 1..n) = q.pagination.total
         /\ \A i \in Asked(q.query) :
              Cardinality({p \in 1..n : i \in Range(pages[p])}) = 1
         /\ \A p \in 1..n : Range(pages[p]) \subseteq Asked(q.query)

\* Thirteen issues are stored and the third and last page of five has been
\* answered with its three items.
C22_Witness ==
  /\ Cardinality(DOMAIN issues) = 13
  /\ \E q \in InFlight :
       /\ q.op = "getAllIssues"
       /\ q.pc = "done"
       /\ q.status = 200
       /\ q.query = [NoQuery EXCEPT !.page = <<3>>, !.limit = <<5>>]
       /\ Len(q.list) = 3
       /\ q.pagination = [total |-> 13, page |-> 3, limit |-> 5, pages |-> Num(3)]

\* C23 (as claimed): a list request with limit 0 or a negative limit is treated
\* as limit 1: it is answered, the number of items returned is that of a page
\* of one, the limit of the pagination block is 1, and pages is a finite
\* non-negative integer.
C23_LimitClampedToOne ==
  [][\A q \in BagToSet(req), q2 \in BagToSet(req') :
       (Moves(q, q2) /\ q.op = "getAllIssues" /\ QueryLimit(q.query) < 1
          /\ QueryPage(q.query) >= 1) =>
         /\ q.pc = "list_find" =>
              /\ q2.pc = "list_count"
              /\ Len(q2.list) =
                   PageSize(Cardinality(DOMAIN issues), QueryPage(q.query), 1)
         /\ q.pc = "list_count" =>
              /\ q2.status = 200
              /\ q2.pagination.limit = 1
              /\ q2.pagination.pages.fin
              /\ q2.pagination.pages.val >= 0
    ]_vars

\* The operations that only read.
ReadOps == {"getIssueById", "getAllIssues", "getComments"}

\* C24: read operations are free of side effects: no step of getIssueById,
\* getAllIssues or getComments changes a stored issue, comment or user; and the
\* payload of GET /api/issues/:id is determined by the store alone (the row, the
\* public fields of its reporter, its comments newest first with the public
\* fields of their authors), so that repeating the request with no mutation in
\* between yields the identical payload.
C24_ReadsAreSideEffectFree ==
  [][/\ \A q \in BagToSet(req), q2 \in BagToSet(req') :
          (Moves(q, q2) /\ q.op \in ReadOps) =>
            /\ issues' = issues /\ comments' = comments /\ users' = users
            /\ (q.op = "getIssueById" /\ q2.pc = "done") =>
                 IF q.id \in DOMAIN issues
                    THEN /\ q2.status = 200
                         /\ Len(q2.payload) = 1
                         /\ q2.payload[1].id = q.id
                         /\ q2.payload[1].issue = issues[q.id]
                         /\ q2.payload[1].reporter.id = issues[q.id].reporterId
                         /\ q2.payload[1].reporter.name = users[issues[q.id].reporterId].name
                         /\ {q2.payload[1].comments[k].id :
                               k \in 1..Len(q2.payload[1].comments)}
                              = {c \in DOMAIN comments : comments[c].issueId = q.id}
                         /\ \A k \in 1..Len(q2.payload[1].comments) :
                              LET c == q2.payload[1].comments[k]
                              IN /\ c.content = comments[c.id].content
                                 /\ c.authorId = comments[c.id].authorId
                                 /\ \A j \in 1..(k - 1) :
                                      q2.payload[1].comments[j].id > c.id
                    ELSE q2.status = 404 /\ q2.payload = <<>>
     /\ \A q2 \in BagToSet(req') :
          (Arrives(q2) /\ q2.op \in ReadOps) =>
            issues' = issues /\ comments' = comments /\ users' = users
    ]_vars

\* An issue with a comment has been read: GET /api/issues/1 has just been
\* answered 200 with the issue and its comment.
C24_Witness ==
  \E q \in InFlight :
    /\ q.op = "getIssueById"
    /\ q.pc = "done"
    /\ q.status = 200
    /\ Len(q.payload) = 1
    /\ Len(q.payload[1].comments) >= 1
    /\ q.payload[1].issue = issues[q.id]

\* C25 (as claimed): deleteIssue is all-or-nothing: when a deleteIssue request
\* ends, either the issue is gone and no comment references it, or the request
\* has removed nothing; in particular no request that removed comments of an
\* issue ends while the issue is still stored.
C25_DeleteAllOrNothing ==
  [][\A q \in BagToSet(req), q2 \in BagToSet(req') :
       (Moves(q, q2) /\ q.op = "deleteIssue" /\ q2.pc = "done") =>
         \/ /\ Missing(q.id, issues')
            /\ \A c \in DOMAIN comments' : comments'[c].issueId # q.id
         \/ /\ q2.removed = {}
            /\ "issue_delete" \notin q2.effects
    ]_vars

\* C26 (as claimed): under concurrent updateIssue requests on one issue, a
\* status-change notification is attempted for exactly the writes that changed
\* the stored status, and the old status of the notification is the status
\* stored immediately before the write of the request that sends it.
C26_NotificationPerStatusWrite ==
  [][\A q \in BagToSet(req), q2 \in BagToSet(req') :
       (/\ Moves(q, q2)
        /\ q.op = "updateIssue"
        /\ q.pc = "upd_write"
        /\ "issue_write" \in q2.effects) =>
         /\ q2.pc = "upd_mail" <=> issues'[q.id].status # issues[q.id].status
         /\ q2.pc = "upd_mail" => q2.oldStatus = issues[q.id].status
    ]_vars

\* C27: a deleted issue stays deleted. When an updateIssue or upvoteIssue
\* request has passed its existence check and the issue is gone at its write,
\* the write stores nothing, the request is answered 500 by the top-level
\* handler and no status-change notification is attempted for it; and an issue
\* id enters the store only by the insert of createIssue, as a new id.
C27_DeletedStaysDeleted ==
  [][/\ \A q \in BagToSet(req), q2 \in BagToSet(req') :
          (/\ Moves(q, q2)
           /\ q.pc \in {"upd_write", "upv_write"}
           /\ Missing(q.id, issues)) =>
            /\ issues' = issues
            /\ upvoteOk' = upvoteOk
            /\ q2.pc = "done"
            /\ q2.status = 500
            /\ q2.mails = <<>>
            /\ q2.effects = q.effects
     /\ \A i \in DOMAIN issues' \ DOMAIN issues :
          /\ i = nextIssue
          /\ \E q \in BagToSet(req) : q.op = "createIssue" /\ q.pc = "crt_create"
    ]_vars

\* The official's update, which had found the issue REPORTED and was about to
\* resolve it, has been answered 500 after the issue was deleted; the issue is
\* not stored and no notification went out.
C27_Witness ==
  /\ issues = <<>>
  /\ nextIssue > 1
  /\ \E q \in InFlight :
       /\ q.op = "updateIssue"
       /\ q.pc = "done"
       /\ q.status = 500
       /\ q.statusChanged
       /\ q.existing.status = "REPORTED"
       /\ q.mails = <<>>

\* C28: IssueProvider's loading flag is true whenever at least one of its
\* requests is in flight and false only when none is; in particular, once
\* createIssue or updateIssue has started its follow-up fetchIssues refresh,
\* loading stays true until that refresh has completed.
C28_LoadingWhileInFlight == loading <=> (req # EmptyBag)

\* C29: after any sequence of successful fetchNotifications, markAsRead,
\* markAllAsRead, deleteNotification and clearAllNotifications calls,
\* unreadCount is not negative and is the number of notifications in the list
\* whose read flag is false (so marking a read notification as read, or marking
\* one notification twice, leaves it unchanged).
C29_UnreadCountMatchesList ==
  /\ unreadCount >= 0
  /\ unreadCount = Cardinality(Unread(notifications))

\* The entries getPageNumbers gives for the props of the state.
PageNumbersOf ==
  GetPageNumbers(pager.currentPage, pager.totalPages, pager.maxPageButtons)

\* The positions of a list of page numbers that hold a number.
Numeric(pages) == {i \in DOMAIN pages : pages[i] # Ellipsis}

\* C30: for 1 <= currentPage <= totalPages and maxPageButtons >= 3,
\* getPageNumbers returns exactly 1..totalPages when totalPages <=
\* maxPageButtons; otherwise its result starts with 1, ends with totalPages,
\* contains currentPage, has strictly increasing numeric entries, at most
\* maxPageButtons of them, and has an ellipsis between two neighbouring numbers
\* exactly when at least one page between them is left out. The component
\* shows these entries.
C30_PageNumbers ==
  LET pages == PageNumbersOf
      last == Len(pages)
  IN /\ pager.pageNumbers # <<>> => pager.pageNumbers = pages
     /\ (1 <= pager.currentPage /\ pager.currentPage <= pager.totalPages
         /\ pager.maxPageButtons >= 3) =>
          IF pager.totalPages <= pager.maxPageButtons
             THEN pages = [i \in 1..pager.totalPages |-> i]
             ELSE /\ pages[1] = 1
                  /\ pages[last] = pager.totalPages
                  /\ \E i \in Numeric(pages) : pages[i] = pager.currentPage
                  /\ \A i, j \in Numeric(pages) : i < j => pages[i] < pages[j]
                  /\ Cardinality(Numeric(pages)) <= pager.maxPageButtons
                  /\ \A i \in 1..(last - 1) :
                       IF pages[i] = Ellipsis
                          THEN /\ i > 1
                               /\ pages[i - 1] # Ellipsis
                               /\ pages[i + 1] # Ellipsis
                               /\ pages[i + 1] > pages[i - 1] + 1
                          ELSE pages[i + 1] # Ellipsis => pages[i + 1] = pages[i] + 1

\* C30 witness: a page in the middle of more pages than buttons is shown with
\* an ellipsis on each side of the window around the current page.
C30_Witness ==
  /\ pager.totalPages > pager.maxPageButtons
  /\ pager.pageNumbers # <<>>
  /\ pager.pageNumbers = PageNumbersOf
  /\ pager.pageNumbers[2] = Ellipsis
  /\ pager.pageNumbers[Len(pager.pageNumbers) - 1] = Ellipsis
  /\ Cardinality(Numeric(pager.pageNumbers)) = pager.maxPageButtons
  /\ \E i \in Numeric(pager.pageNumbers) :
       /\ pager.pageNumbers[i] = pager.currentPage
       /\ 2 < i /\ i < Len(pager.pageNumbers) - 1

====
